---- MODULE Spec2Model ----
(***************************************************************************)
(* Clear-sky irradiance service (Bird & Hulstrom 1981): the Julian Date,   *)
(* station pressure and solar position utilities, the Bird model that      *)
(* composes them, and the day-average aggregation of hourly records.       *)
(*                                                                         *)
(* Every operation is a call that runs to completion: an action draws the  *)
(* call's inputs, computes what the Python code computes and records the   *)
(* outcome (the returned value, or the exception that reaches the caller)  *)
(* together with the log records the call wrote.                           *)
(*                                                                         *)
(* Python floats are modelled as binary floating point numbers with a      *)
(* Prec-bit significand, round-to-nearest-even, and an exponent range      *)
(* bounded by EMax: the IEEE-754 double semantics at reduced width.  The   *)
(* Julian Date itself is carried as an exact rational (half-days and       *)
(* seconds), which is what a double holds of it to within 2.4e-10 day.     *)
(***************************************************************************)
EXTENDS Integers, Sequences, FiniteSets, TLC

VARIABLES
    op,     \* the operation invoked last ("none" before the first call)
    args,   \* its arguments
    ret,    \* the value it returned (NoValue when it raised)
    exc,    \* "none", or the type of the exception that reached the caller
    log,    \* the log records the call wrote, in order
    frames  \* the frame of each concurrent invocation of BirdModel.calculate

vars == <<op, args, ret, exc, log, frames>>

NoValue == [none |-> TRUE]

\* SolarInputsDataclass(...): the inputs of the Bird model
SolarInputs(solar_constant, longitude, latitude, elevation, month, day, year, hour, minute, second, station_pressure, albedo, ozone, water_vapor, aot500, aot380) ==
    [solar_constant |-> solar_constant, longitude |-> longitude,
     latitude |-> latitude, elevation |-> elevation, month |-> month,
     day |-> day, year |-> year, hour |-> hour, minute |-> minute,
     second |-> second, station_pressure |-> station_pressure,
     albedo |-> albedo, ozone |-> ozone, water_vapor |-> water_vapor,
     aot500 |-> aot500, aot380 |-> aot380]

\* SolarOutputsDataclass(...): the outputs of the Bird model
SolarOutputs(station_pressure, julian_date, earth_sun_distance, zenith_angle, air_mass, corrected_solar_constant, direct_horizontal, diffuse_horizontal, total_horizontal) ==
    [station_pressure |-> station_pressure, julian_date |-> julian_date,
     earth_sun_distance |-> earth_sun_distance, zenith_angle |-> zenith_angle,
     air_mass |-> air_mass,
     corrected_solar_constant |-> corrected_solar_constant,
     direct_horizontal |-> direct_horizontal,
     diffuse_horizontal |-> diffuse_horizontal,
     total_horizontal |-> total_horizontal]

\* The irradiances among the outputs
IrradianceFields ==
    {"direct_horizontal", "diffuse_horizontal", "total_horizontal"}

(***************************************************************************)
(* Floating point values.  A finite value is m * 2^e with m = 0 or         *)
(* 2^(Prec-1) <= |m| < 2^Prec.  The other kinds are the infinities, NaN,   *)
(* a complex number (what built-in pow returns for a negative base and a   *)
(* fractional exponent) and a raised exception, which every later          *)
(* operation passes on unchanged: the first exception raised is the one    *)
(* that leaves the computation.                                            *)
(***************************************************************************)
Prec == 26
EMax == 30

Pow2Table ==
    <<1, 2, 4, 8, 16, 32, 64, 128, 256, 512, 1024, 2048, 4096, 8192, 16384,
      32768, 65536, 131072, 262144, 524288, 1048576, 2097152, 4194304,
      8388608, 16777216, 33554432, 67108864, 134217728, 268435456,
      536870912, 1073741824>>

Pow2(n) == Pow2Table[n + 1]

BitLen4(n) == <<0, 1, 2, 2, 3, 3, 3, 3, 4, 4, 4, 4, 4, 4, 4, 4>>[n + 1]

BitLen8(n) == IF n < 16 THEN BitLen4(n) ELSE 4 + BitLen4(n \div 16)

BitLen16(n) == IF n < 256 THEN BitLen8(n) ELSE 8 + BitLen8(n \div 256)

BitLen(n) == IF n < 65536 THEN BitLen16(n) ELSE 16 + BitLen16(n \div 65536)

Sgn(n) == IF n > 0 THEN 1 ELSE IF n < 0 THEN -1 ELSE 0

Abs(n) == IF n < 0 THEN -n ELSE n

ErrKinds == {"ZeroDivisionError", "ValueError", "OverflowError", "TypeError"}

Fin(mant, ex) == [k |-> "fin", m |-> mant, e |-> ex]

FZero == Fin(0, 0)

FInf(sg) == [k |-> "inf", m |-> sg, e |-> 0]

FNaN == [k |-> "nan", m |-> 0, e |-> 0]

FComplex == [k |-> "cplx", m |-> 0, e |-> 0]

Raise(name) == [k |-> name, m |-> 0, e |-> 0]

IsErr(x) == x.k \in ErrKinds

IsFin(x) == x.k = "fin"

IsZero(x) == x.k = "fin" /\ x.m = 0

IsNeg(x) == x.k \in {"fin", "inf"} /\ x.m < 0

IsPos(x) == x.k \in {"fin", "inf"} /\ x.m > 0

\* A float result out of the exponent range: * + - / never raise, they
\* return an infinity (or zero on underflow).
FRange(sg, mant, ex) ==
    IF ex + Prec > EMax THEN FInf(sg)
    ELSE IF ex + Prec < -(4 * EMax) THEN FZero
    ELSE Fin(sg * mant, ex)

\* sg * n * 2^ex, plus a non-zero fraction below n's last bit when sticky,
\* rounded to Prec bits, ties to even.
FNorm(sg, n, ex, sticky) ==
    IF n = 0 THEN FZero
    ELSE LET b == BitLen(n) IN
         IF b <= Prec
         THEN FRange(sg, n * Pow2(Prec - b), ex - (Prec - b))
         ELSE LET s == b - Prec
                  q == n \div Pow2(s)
                  r == n % Pow2(s)
                  hf == Pow2(s - 1)
                  up == r > hf \/ (r = hf /\ (sticky \/ q % 2 = 1))
                  q2 == IF up THEN q + 1 ELSE q
              IN  IF q2 = Pow2(Prec)
                  THEN FRange(sg, Pow2(Prec - 1), ex + s + 1)
                  ELSE FRange(sg, q2, ex + s)

\* float(n) of an integer
FInt(n) == FNorm(Sgn(n), Abs(n), 0, FALSE)

FNeg(x) == IF x.k \in {"fin", "inf"} THEN [x EXCEPT !.m = -x.m] ELSE x

FAbs(x) == IF IsNeg(x) THEN FNeg(x) ELSE x

\* What a binary operation does with an exception, a complex or a NaN operand
\* (NoValue: neither operand is one).
Special2(x, y) ==
    IF IsErr(x) THEN x
    ELSE IF IsErr(y) THEN y
    ELSE IF x.k = "cplx" \/ y.k = "cplx" THEN FComplex
    ELSE IF x.k = "nan" \/ y.k = "nan" THEN FNaN
    ELSE NoValue

\* x + y of two non-zero finite values
FAddFin(x, y) ==
    LET a == IF x.e >= y.e THEN x ELSE y
        b == IF x.e >= y.e THEN y ELSE x
        d == a.e - b.e
    IN  IF d > Prec + 2 THEN a
        ELSE LET am == Abs(a.m) * 8
                 bm == Abs(b.m) * 8
                 bq == bm \div Pow2(d)
                 st == bm % Pow2(d) # 0
                 df == am - bq - (IF st THEN 1 ELSE 0)
             IN  IF Sgn(a.m) = Sgn(b.m)
                 THEN FNorm(Sgn(a.m), am + bq, a.e - 3, st)
                 ELSE FNorm(Sgn(a.m) * Sgn(df), Abs(df), a.e - 3, st)

\* x + y
FAdd(x, y) ==
    LET sp == Special2(x, y) IN
    IF sp # NoValue THEN sp
    ELSE IF x.k = "inf" /\ y.k = "inf" THEN (IF x.m = y.m THEN x ELSE FNaN)
    ELSE IF x.k = "inf" THEN x
    ELSE IF y.k = "inf" THEN y
    ELSE IF x.m = 0 THEN y
    ELSE IF y.m = 0 THEN x
    ELSE FAddFin(x, y)

\* x - y
FSub(x, y) == FAdd(x, FNeg(y))

\* x * y of two non-zero finite values: the exact 2*Prec-bit product, rounded
FMulFin(x, y) ==
    LET a == Abs(x.m)
        b == Abs(y.m)
        ah == a \div 32768
        al == a % 32768
        bh == b \div 32768
        bl == b % 32768
        cross == ah * bl + al * bh
        lo == (cross % 32768) * 32768 + al * bl
        hi == ah * bh + cross \div 32768 + lo \div Pow2(30)
        lw == lo % Pow2(30)
        n == hi * Pow2(30 - Prec) + lw \div Pow2(Prec)
        r == lw % Pow2(Prec)
    IN  FNorm(Sgn(x.m) * Sgn(y.m), n * 4 + r \div Pow2(Prec - 2),
              x.e + y.e + Prec - 2, r % Pow2(Prec - 2) # 0)

\* x * y
FMul(x, y) ==
    LET sp == Special2(x, y) IN
    IF sp # NoValue THEN sp
    ELSE IF x.k = "inf" \/ y.k = "inf"
         THEN (IF x.m = 0 \/ y.m = 0 THEN FNaN ELSE FInf(Sgn(x.m) * Sgn(y.m)))
    ELSE IF x.m = 0 \/ y.m = 0 THEN FZero
    ELSE FMulFin(x, y)

\* <<floor(r * 2^n / d), remainder>> for r < d < 2^27, four bits at a time
RECURSIVE LongDiv(_, _, _)
LongDiv(r, d, n) ==
    IF n = 0 THEN <<0, r>>
    ELSE LET c == IF n >= 4 THEN 4 ELSE n
             t == r * Pow2(c)
             rest == LongDiv(t % d, d, n - c)
         IN  <<(t \div d) * Pow2(n - c) + rest[1], rest[2]>>

\* x / y: a zero divisor raises ZeroDivisionError
FDiv(x, y) ==
    LET sp == Special2(x, y) IN
    IF sp # NoValue THEN sp
    ELSE IF IsZero(y) THEN Raise("ZeroDivisionError")
    ELSE IF x.k = "inf"
         THEN (IF y.k = "inf" THEN FNaN ELSE FInf(Sgn(x.m) * Sgn(y.m)))
    ELSE IF y.k = "inf" THEN FZero
    ELSE IF x.m = 0 THEN FZero
    ELSE LET a == Abs(x.m)
             b == Abs(y.m)
             qr == LongDiv(a % b, b, Prec + 2)
         IN  FNorm(Sgn(x.m) * Sgn(y.m), (a \div b) * Pow2(Prec + 2) + qr[1],
                   x.e - y.e - (Prec + 2), qr[2] # 0)

Pow10Table ==
    <<1, 10, 100, 1000, 10000, 100000, 1000000, 10000000, 100000000,
      1000000000>>

\* The float of the decimal literal n * 10^(-d)
Dec(n, d) ==
    IF d > 9 THEN FDiv(FDiv(FInt(n), FInt(Pow10Table[10])), FInt(Pow10Table[d - 8]))
    ELSE FDiv(FInt(n), FInt(Pow10Table[d + 1]))

\* x < y, x <= y on values that are not NaN
FLt(x, y) == IsNeg(FSub(x, y))

FLe(x, y) == LET df == FSub(x, y) IN IsNeg(df) \/ IsZero(df)

(***************************************************************************)
(* The math library.  Each function is computed in the arithmetic above    *)
(* (argument reduction and a truncated series), so its result is within a  *)
(* few units in the last place of the true value, and it raises what       *)
(* Python's math module raises: ValueError outside the domain,             *)
(* OverflowError beyond the exponent range, TypeError for a complex        *)
(* argument.                                                               *)
(***************************************************************************)
ExpTerms == 9
LnTerms == 6
TrigTerms == 5
AtanTerms == 11
SqrtSteps == 4

FOne == FInt(1)

\* math.pi, from pi * 2^28
FPi == FNorm(1, 843314857, -28, FALSE)

\* ln 2, from ln 2 * 2^30
FLn2 == FNorm(1, 744261118, -30, FALSE)

\* x * 2^n, exact
FScale2(x, n) == IF x.k = "fin" /\ x.m # 0 THEN [x EXCEPT !.e = x.e + n] ELSE x

FHalf(x) == FScale2(x, -1)

FPiO2 == FHalf(FPi)

\* The integer nearest to a finite value
ToInt(x) ==
    IF x.m = 0 THEN 0
    ELSE IF x.e >= 0 THEN x.m * Pow2(x.e)
    ELSE IF -x.e > Prec + 1 THEN 0
    ELSE Sgn(x.m) * ((Abs(x.m) + Pow2(-x.e - 1)) \div Pow2(-x.e))

\* A finite value is an integer, an odd integer
IsInt(x) ==
    \/ x.m = 0
    \/ x.e >= 0
    \/ (-x.e < Prec /\ Abs(x.m) % Pow2(-x.e) = 0)

IsOdd(x) ==
    /\ x.m # 0
    /\ x.e <= 0
    /\ -x.e < Prec
    /\ Abs(x.m) % Pow2(-x.e) = 0
    /\ (Abs(x.m) \div Pow2(-x.e)) % 2 = 1

\* 1 + r/1 * (1 + r/2 * (...)): the exponential series, innermost term first
\* (acc holds the value of the terms after the i-th)
RECURSIVE ExpPoly(_, _, _)
ExpPoly(r, i, acc) ==
    IF i = 0 \/ IsErr(acc) THEN acc
    ELSE ExpPoly(r, i - 1, FAdd(FOne, FMul(FDiv(r, FInt(i)), acc)))

\* math.exp(x)
FExp(x) ==
    IF IsErr(x) THEN x
    ELSE IF x.k = "cplx" THEN Raise("TypeError")
    ELSE IF x.k = "nan" THEN FNaN
    ELSE IF x.k = "inf" THEN (IF x.m > 0 THEN x ELSE FZero)
    ELSE IF x.m # 0 /\ x.e + Prec > 7
         THEN (IF x.m > 0 THEN Raise("OverflowError") ELSE FZero)
    ELSE LET n == ToInt(FDiv(x, FLn2))
             r == FSub(x, FMul(FInt(n), FLn2))
             y == ExpPoly(r, ExpTerms, FOne)
         IN  IF y.e + n + Prec > EMax THEN Raise("OverflowError")
             ELSE IF y.e + n + Prec < -(4 * EMax) THEN FZero
             ELSE FScale2(y, n)

\* 1/(2i+1) + z2 * (1/(2i+3) + ...): the atanh series of the logarithm
RECURSIVE AtanhPoly(_, _, _)
AtanhPoly(z2, i, acc) ==
    IF i = 0 \/ IsErr(acc) THEN acc
    ELSE AtanhPoly(z2, i - 1, FAdd(FDiv(FOne, FInt(2 * i - 1)), FMul(z2, acc)))

\* The natural logarithm of a finite positive value
FLn(x) ==
    LET f0 == Fin(x.m, -Prec)
        small == FLt(f0, FNorm(1, 759250125, -30, FALSE))
        f == IF small THEN FScale2(f0, 1) ELSE f0
        ex == x.e + Prec - (IF small THEN 1 ELSE 0)
        z == FDiv(FSub(f, FOne), FAdd(f, FOne))
    IN  FAdd(FMul(FInt(ex), FLn2), FMul(FScale2(z, 1), AtanhPoly(FMul(z, z), LnTerms, FZero)))

\* pow(x, y) with an infinite operand
PowInf(x, y) ==
    IF y.k = "inf"
    THEN LET a == FAbs(x) IN
         IF a = FOne THEN FOne
         ELSE IF FLt(FOne, a) = (y.m > 0) THEN FInf(1) ELSE FZero
    ELSE IF IsNeg(y) THEN FZero
    ELSE IF x.m > 0 \/ ~IsOdd(y) THEN FInf(1) ELSE FInf(-1)

\* Built-in pow(x, y) on floats: a zero base with a negative exponent raises
\* ZeroDivisionError; a negative base with a non-integer exponent gives a
\* complex number.
FPow(x, y) ==
    IF IsErr(x) THEN x
    ELSE IF IsErr(y) THEN y
    ELSE IF x.k = "cplx" \/ y.k = "cplx" THEN FComplex
    ELSE IF IsZero(y) THEN FOne
    ELSE IF x = FOne THEN FOne
    ELSE IF x.k = "nan" \/ y.k = "nan" THEN FNaN
    ELSE IF x.k = "inf" \/ y.k = "inf" THEN PowInf(x, y)
    ELSE IF IsZero(x) THEN (IF IsNeg(y) THEN Raise("ZeroDivisionError") ELSE FZero)
    ELSE IF IsNeg(x)
         THEN IF ~IsInt(y) THEN FComplex
              ELSE LET r == FExp(FMul(y, FLn(FNeg(x)))) IN
                   IF IsOdd(y) THEN FNeg(r) ELSE r
    ELSE FExp(FMul(y, FLn(x)))

\* 1 - r2/(2i(2i+1)) * (1 - ...) and 1 - r2/((2i-1)2i) * (1 - ...)
RECURSIVE SinPoly(_, _, _)
SinPoly(r2, i, acc) ==
    IF i = 0 \/ IsErr(acc) THEN acc
    ELSE SinPoly(r2, i - 1,
                 FSub(FOne, FMul(FDiv(r2, FInt(2 * i * (2 * i + 1))), acc)))

RECURSIVE CosPoly(_, _, _)
CosPoly(r2, i, acc) ==
    IF i = 0 \/ IsErr(acc) THEN acc
    ELSE CosPoly(r2, i - 1,
                 FSub(FOne, FMul(FDiv(r2, FInt((2 * i - 1) * 2 * i)), acc)))

SinR(r) == FMul(r, SinPoly(FMul(r, r), TrigTerms, FOne))

CosR(r) == CosPoly(FMul(r, r), TrigTerms, FOne)

\* sin(x + shift * pi/2): the argument is reduced by multiples of pi/2
Trig(x, shift) ==
    IF IsErr(x) THEN x
    ELSE IF x.k = "cplx" THEN Raise("TypeError")
    ELSE IF x.k = "nan" THEN FNaN
    ELSE IF x.k = "inf" THEN Raise("ValueError")
    ELSE LET n == ToInt(FDiv(x, FPiO2))
             r == FSub(x, FMul(FInt(n), FPiO2))
             q == (n + shift) % 4
         IN  IF q = 0 THEN SinR(r)
             ELSE IF q = 1 THEN CosR(r)
             ELSE IF q = 2 THEN FNeg(SinR(r))
             ELSE FNeg(CosR(r))

\* math.sin(x), math.cos(x)
FSin(x) == Trig(x, 0)

FCos(x) == Trig(x, 1)

RECURSIVE Newton(_, _, _)
Newton(v, y, i) ==
    IF i = 0 \/ IsErr(y) THEN y
    ELSE Newton(v, FHalf(FAdd(y, FDiv(v, y))), i - 1)

\* The square root of a finite non-negative value
FSqrt(v) ==
    IF v.m = 0 THEN FZero
    ELSE LET ex == v.e + Prec
             odd == ex % 2
             f == Fin(v.m, -Prec - odd)
             y0 == FAdd(Dec(3, 1), FMul(Dec(7, 1), f))
         IN  FScale2(Newton(f, y0, SqrtSteps), (ex + odd) \div 2)

\* 1/(2i+1) - u2 * (1/(2i+3) - ...): the arctangent series
RECURSIVE AtanPoly(_, _, _)
AtanPoly(u2, i, acc) ==
    IF i = 0 \/ IsErr(acc) THEN acc
    ELSE AtanPoly(u2, i - 1, FSub(FDiv(FOne, FInt(2 * i - 1)), FMul(u2, acc)))

AtanSmall(u) == FMul(u, AtanPoly(FMul(u, u), AtanTerms, FZero))

\* atan t for 0 <= t <= 1, for t >= 0, for any finite t
AtanUnit(t) ==
    IF FLt(Dec(4142, 4), t)
    THEN FAdd(FHalf(FPiO2), AtanSmall(FDiv(FSub(t, FOne), FAdd(t, FOne))))
    ELSE AtanSmall(t)

AtanPos(t) ==
    IF FLt(FOne, t) THEN FSub(FPiO2, AtanUnit(FDiv(FOne, t))) ELSE AtanUnit(t)

FAtan(t) == IF IsNeg(t) THEN FNeg(AtanPos(FNeg(t))) ELSE AtanPos(t)

\* math.atan2(y, x)
FAtan2(y, x) ==
    IF IsErr(y) THEN y
    ELSE IF IsErr(x) THEN x
    ELSE IF y.k = "cplx" \/ x.k = "cplx" THEN Raise("TypeError")
    ELSE IF y.k # "fin" \/ x.k # "fin" THEN FNaN
    ELSE IF IsZero(x)
         THEN (IF IsZero(y) THEN FZero ELSE IF IsPos(y) THEN FPiO2 ELSE FNeg(FPiO2))
    ELSE LET a == FAtan(FDiv(y, x)) IN
         IF IsPos(x) THEN a
         ELSE IF IsNeg(y) THEN FSub(a, FPi) ELSE FAdd(a, FPi)

\* math.asin(x): an argument outside [-1, 1] raises ValueError
\* ("math domain error")
FAsin(x) ==
    IF IsErr(x) THEN x
    ELSE IF x.k = "cplx" THEN Raise("TypeError")
    ELSE IF x.k = "nan" THEN FNaN
    ELSE IF x.k = "inf" THEN Raise("ValueError")
    ELSE IF FLt(FOne, FAbs(x)) THEN Raise("ValueError")
    ELSE IF FAbs(x) = FOne THEN (IF IsPos(x) THEN FPiO2 ELSE FNeg(FPiO2))
    ELSE FAtan(FDiv(x, FSqrt(FMul(FSub(FOne, x), FAdd(FOne, x)))))

\* x % 360.0: exact, the result in [0, 360); NaN for an infinite x
FMod360(x) ==
    IF IsErr(x) THEN x
    ELSE IF x.k = "cplx" THEN Raise("TypeError")
    ELSE IF x.k # "fin" THEN FNaN
    ELSE LET a == Abs(x.m)
             r == IF x.e >= 0 THEN FInt((a * Pow2(x.e)) % 360)
                  ELSE IF -x.e > 22 THEN Fin(a, x.e)
                  ELSE FNorm(1, a % (360 * Pow2(-x.e)), x.e, FALSE)
         IN  IF x.m < 0 /\ r.m # 0 THEN FAdd(FNeg(r), FInt(360)) ELSE r

\* float(n) of a Python int: an int too large for a float raises OverflowError
FFromInt(n) ==
    LET x == FInt(n) IN IF x.k = "inf" THEN Raise("OverflowError") ELSE x

\* math.floor(x), the int held as a float: floor(inf) raises OverflowError,
\* floor(nan) ValueError
FFloor(x) ==
    IF IsErr(x) THEN x
    ELSE IF x.k = "cplx" THEN Raise("TypeError")
    ELSE IF x.k = "nan" THEN Raise("ValueError")
    ELSE IF x.k = "inf" THEN Raise("OverflowError")
    ELSE IF x.m = 0 \/ x.e >= 0 THEN x
    ELSE IF -x.e >= Prec THEN (IF x.m < 0 THEN FInt(-1) ELSE FZero)
    ELSE FInt(x.m \div Pow2(-x.e))

\* The integer nearest to a * c / 2^s, ties to even, for a < 2^27, c < 2^20
\* and c <= 2^s: the exact product in two 30-bit words, then the shift
NearestShifted(a, c, s) ==
    LET ah == a \div 32768
        al == a % 32768
        ch == c \div 32768
        cl == c % 32768
        cross == ah * cl + al * ch
        lo == (cross % 32768) * 32768 + al * cl
        hi == ah * ch + cross \div 32768 + lo \div Pow2(30)
        lw == lo % Pow2(30)
        q == IF s <= 30 THEN hi * Pow2(30 - s) + lw \div Pow2(s)
             ELSE IF s <= 60 THEN hi \div Pow2(s - 30)
             ELSE 0
        \* the remainder against one half: -1 below, 0 a tie, 1 above
        side == IF s <= 30
                THEN Sgn((lw % Pow2(s)) - Pow2(s - 1))
                ELSE IF s <= 60
                THEN (LET rh == hi % Pow2(s - 30)
                          hf == Pow2(s - 31)
                      IN  IF rh # hf THEN Sgn(rh - hf)
                          ELSE IF lw > 0 THEN 1 ELSE 0)
                ELSE -1
    IN  IF side > 0 \/ (side = 0 /\ q % 2 = 1) THEN q + 1 ELSE q

\* round(x, n) for 0 <= n <= 6: the decimal with n places nearest to the
\* exact value of x, ties to even, then the float nearest to that decimal;
\* a float whose last bit is worth more than 10^-n is its own rounding
FRound(x, n) ==
    IF IsErr(x) THEN x
    ELSE IF x.k = "cplx" THEN Raise("TypeError")
    ELSE IF x.k # "fin" \/ x.m = 0 \/ x.e >= 0 THEN x
    ELSE LET c == Pow10Table[n + 1]
             s == -x.e
         IN  IF s < 20 /\ Pow2(s) < c THEN x
             ELSE FDiv(FInt(Sgn(x.m) * NearestShifted(Abs(x.m), c, s)),
                       FInt(c))

\* x == y on floats: a NaN equals nothing, itself included
FEq(x, y) == x.k \in {"fin", "inf"} /\ x = y

\* The first exception raised by a sequence of statements, NoValue if none
RECURSIVE FirstErr(_, _)
FirstErr(xs, i) ==
    IF i > Len(xs) THEN NoValue
    ELSE IF IsErr(xs[i]) THEN xs[i]
    ELSE FirstErr(xs, i + 1)

(***************************************************************************)
(* Calls.  A call's outcome is the value it returns or the exception that  *)
(* reaches its caller, and the log records it wrote.                       *)
(***************************************************************************)
LogRec(level, msg, vals) == [level |-> level, msg |-> msg, vals |-> vals]

Returned(v, records) == [ret |-> v, exc |-> "none", log |-> records]

Raised(type, records) == [ret |-> NoValue, exc |-> type, log |-> records]

\* The except clauses shared by the three utilities: OverflowError is
\* re-raised as OverflowError, ValueError and ZeroDivisionError and every
\* other exception as RuntimeError.
UtilExcept(kind) ==
    IF kind = "OverflowError" THEN "OverflowError" ELSE "RuntimeError"

\* The message logged by the except clause that catches the exception
UtilErrorMsg(kind) ==
    IF kind = "OverflowError" THEN "Overflow error"
    ELSE IF kind \in {"ValueError", "ZeroDivisionError"} THEN "Mathematical error"
    ELSE "Unexpected error"

(***************************************************************************)
(* JulianDateCalculator.calculate.  A Julian Date is the float kind "jd":  *)
(* m half-days and e seconds past them, that is m/2 + e/86400 days, with   *)
(* 0 <= e < 43200.                                                         *)
(***************************************************************************)
HalfDaySeconds == 43200
J2000HalfDays == 4903090

JDValue(hd, s) ==
    [k |-> "jd", m |-> hd + s \div HalfDaySeconds, e |-> s % HalfDaySeconds]

\* The year left as given in January and February: the Julian Date formula
\* without its calendar shift
UnshiftedYear(month, year) == year

\* if m < 3: y -= 1; m += 12
ShiftedYear(month, year) == IF month < 3 THEN year - 1 ELSE year

ShiftedMonth(month) == IF month < 3 THEN month + 12 ELSE month

\* A = math.floor(y / 100.0)
CenturyA(y) == FFloor(FDiv(FFromInt(y), FInt(100)))

\* The correction of a calendar with a leap year every fourth year
NoCenturyCorrection(A) == FZero

\* B = 2 - A + math.floor(A / 4.0)
LeapB(A) == FAdd(FSub(FInt(2), A), FFloor(FDiv(A, FInt(4))))

\* JD at midnight:
\* floor(365.25 * (y + 4716)) + floor(30.6001 * (m + 1)) + d + B - 1524.5
MidnightJD(m, d, y) ==
    LET A == CenturyA(y)
        B == LeapB(A)
    IN  IF IsErr(A) THEN A
        ELSE FSub(FAdd(FAdd(FAdd(FFloor(FMul(Dec(36525, 2), FFromInt(y + 4716))),
                                 FFloor(FMul(Dec(306001, 4), FFromInt(m + 1)))),
                            FFromInt(d)),
                       B),
                  Dec(15245, 1))

\* time_fraction = hr / 24.0 + mn / 1440.0 + sec / 86400.0, in seconds
TimeSeconds(hour, minute, second) == 3600 * hour + 60 * minute + second

\* result = JD + time_fraction
JulianDate(month, day, year, hour, minute, second) ==
    LET JD == MidnightJD(ShiftedMonth(month), day, ShiftedYear(month, year))
        s == TimeSeconds(hour, minute, second)
    IN  IF IsErr(JD) THEN JD
        ELSE IF JD.k = "fin" /\ IsInt(FScale2(JD, 1)) /\ JD.e + Prec < EMax
        THEN JDValue(ToInt(FScale2(JD, 1)), s)
        ELSE FAdd(JD, FDiv(FFromInt(s), FInt(86400)))

JulianDateCalculate(month, day, year, hour, minute, second) ==
    LET result == JulianDate(month, day, year, hour, minute, second)
        start == LogRec("DEBUG", "Calculating Julian Date",
                        <<year, month, day, hour, minute, second>>)
    IN  IF IsErr(result)
        THEN Raised(UtilExcept(result.k),
                    <<start, LogRec("ERROR", UtilErrorMsg(result.k), <<year>>)>>)
        ELSE Returned(result,
                      <<start, LogRec("DEBUG", "Julian Date calculated", <<result>>)>>)

(***************************************************************************)
(* PressureCalculator.station_pressure                                     *)
(***************************************************************************)
\* The exponent with a linear term that does not vanish at sea level
PressureExponentOffset(H) ==
    FSub(FMul(Dec(-119, 3), FAdd(H, FOne)), FMul(FMul(Dec(13, 4), H), H))

\* -0.119 * H - 0.0013 * H * H
PressureExponent(H) ==
    FSub(FMul(Dec(-119, 3), H), FMul(FMul(Dec(13, 4), H), H))

\* A station pressure with a branch of its own below sea level, where the
\* sea-level pressure is returned uncorrected
StationPressureAboveSeaOnly(p_sea_level, elevation_m) ==
    IF IsNeg(elevation_m) THEN p_sea_level
    ELSE FMul(p_sea_level,
              FExp(FSub(FMul(Dec(-119, 3), FDiv(elevation_m, FInt(1000))),
                        FMul(FMul(Dec(13, 4), FDiv(elevation_m, FInt(1000))),
                             FDiv(elevation_m, FInt(1000))))))

\* H = float(elevation_m) / 1000.0
\* pressure = float(p_sea_level) * math.exp(-0.119 * H - 0.0013 * H * H)
StationPressureValue(p_sea_level, elevation_m) ==
    LET H == FDiv(elevation_m, FInt(1000))
    IN  FMul(p_sea_level, FExp(PressureExponent(H)))

station_pressure(p_sea_level, elevation_m) ==
    LET pressure == StationPressureValue(p_sea_level, elevation_m)
        start == LogRec("DEBUG", "Calculating station pressure",
                        <<p_sea_level, elevation_m>>)
    IN  IF IsErr(pressure)
        THEN Raised(UtilExcept(pressure.k),
                    <<start, LogRec("ERROR", UtilErrorMsg(pressure.k),
                                    <<elevation_m>>)>>)
        ELSE Returned(pressure,
                      <<start, LogRec("DEBUG", "Station pressure calculated",
                                      <<pressure>>)>>)

(***************************************************************************)
(* SolarPositionCalculator.calculate                                       *)
(***************************************************************************)
\* The float of the decimal literal whole + n * 10^(-d)
Lit(whole, n, d) == FAdd(FInt(whole), Dec(n, d))

\* dr = math.pi / 180.0
DegToRad == FDiv(FPi, FInt(180))

\* julian_date - 2451545.0
DaysSinceJ2000(julian_date) ==
    IF julian_date.k = "jd"
    THEN FAdd(FHalf(FInt(julian_date.m - J2000HalfDays)),
              FDiv(FInt(julian_date.e), FInt(2 * HalfDaySeconds)))
    ELSE FSub(julian_date, FInt(2451545))

\* L0 = 280.46645 + 36000.76983 * T + 0.0003032 * T * T
MeanLongitude(T) ==
    FAdd(FAdd(Dec(28046645, 5), FMul(Lit(36000, 76983, 5), T)),
         FMul(FMul(Dec(3032, 7), T), T))

\* M = 357.52910 + 35999.05030 * T - 0.0001559 * T * T - 0.00000048 * T * T * T
MeanAnomaly(T) ==
    FSub(FSub(FAdd(Dec(3575291, 4), FMul(Lit(35999, 5030, 5), T)),
              FMul(FMul(Dec(1559, 7), T), T)),
         FMul(FMul(FMul(Dec(48, 8), T), T), T))

\* e = 0.016708617 - 0.000042037 * T - 0.0000001236 * T * T
Eccentricity(T) ==
    FSub(FSub(Dec(16708617, 9), FMul(Dec(42037, 9), T)),
         FMul(FMul(Dec(1236, 10), T), T))

\* C = (1.914600 - 0.004817 * T - 0.000014 * T * T) * math.sin(M_rad)
\*     + (0.019993 - 0.000101 * T) * math.sin(2.0 * M_rad)
\*     + 0.000290 * math.sin(3.0 * M_rad)
EquationOfCenter(T, M_rad) ==
    FAdd(FAdd(FMul(FSub(FSub(Dec(19146, 4), FMul(Dec(4817, 6), T)),
                        FMul(FMul(Dec(14, 6), T), T)),
                   FSin(M_rad)),
              FMul(FSub(Dec(19993, 6), FMul(Dec(101, 6), T)),
                   FSin(FMul(FInt(2), M_rad)))),
         FMul(Dec(29, 5), FSin(FMul(FInt(3), M_rad))))

\* R = 1.000001018 * (1.0 - e * e) / (1.0 + e * math.cos(f))
EarthSunDistance(e, f) ==
    FDiv(FMul(Dec(1000001018, 9), FSub(FOne, FMul(e, e))),
         FAdd(FOne, FMul(e, FCos(f))))

\* sidereal_time = (280.46061837 + 360.98564736629 * (julian_date - 2451545.0)
\*                  + 0.000387933 * T * T - T * T * T / 38710000.0) % 360.0
SiderealTime(julian_date, T) ==
    FMod360(FSub(FAdd(FAdd(Lit(280, 46061837, 8),
                           FMul(Lit(360, 985647366, 9),
                                DaysSinceJ2000(julian_date))),
                      FMul(FMul(Dec(387933, 9), T), T)),
                 FDiv(FMul(FMul(T, T), T), FInt(38710000))))

\* obliquity = 23.0 + 26.0 / 60.0 + 21.448 / 3600.0 - 46.8150 / 3600.0 * T
\*             - 0.00059 / 3600.0 * T * T + 0.001813 / 3600.0 * T * T * T
Obliquity(T) ==
    FAdd(FSub(FSub(FAdd(FAdd(FInt(23), FDiv(FInt(26), FInt(60))),
                        FDiv(Dec(21448, 3), FInt(3600))),
                   FMul(FDiv(Dec(468150, 4), FInt(3600)), T)),
              FMul(FMul(FDiv(Dec(59, 5), FInt(3600)), T), T)),
         FMul(FMul(FMul(FDiv(Dec(1813, 6), FInt(3600)), T), T), T))

\* The argument of the elevation's asin:
\* sin(latitude * dr) * sin(declination)
\*   + cos(latitude * dr) * cos(declination) * cos(hour_angle * dr)
ElevationSine(latitude, declination, hour_angle) ==
    FAdd(FMul(FSin(FMul(latitude, DegToRad)), FSin(declination)),
         FMul(FMul(FCos(FMul(latitude, DegToRad)), FCos(declination)),
              FCos(FMul(hour_angle, DegToRad))))

\* elevation = math.asin(...) / dr: the argument goes to asin as computed
Elevation(latitude, declination, hour_angle) ==
    FDiv(FAsin(ElevationSine(latitude, declination, hour_angle)), DegToRad)

\* The zenith angle measured from the nadir instead of the horizon's normal
ZenithFromNadir(elevation) == FSub(FInt(180), elevation)

\* zenith_angle = 90.0 - elevation
ZenithAngle(elevation) == FSub(FInt(90), elevation)

\* The whole of calculate: the statements of the try block, and the first
\* exception raised, which the except clauses turn into the one that leaves
SolarPositionCalculate(julian_date, longitude, latitude) ==
    LET dr == DegToRad
        T == FDiv(DaysSinceJ2000(julian_date), FInt(36525))
        L0 == MeanLongitude(T)
        M == MeanAnomaly(T)
        M_rad == FMul(M, dr)
        e == Eccentricity(T)
        C == EquationOfCenter(T, M_rad)
        L_true == FMod360(FAdd(L0, C))
        f == FAdd(M_rad, FMul(C, dr))
        R == EarthSunDistance(e, f)
        sidereal_time == SiderealTime(julian_date, T)
        obliquity == Obliquity(T)
        sinL == FSin(FMul(L_true, dr))
        right_ascension ==
            FAtan2(FMul(sinL, FCos(FMul(obliquity, dr))), FCos(FMul(L_true, dr)))
        declination == FAsin(FMul(FSin(FMul(obliquity, dr)), sinL))
        hour_angle ==
            FSub(FAdd(sidereal_time, longitude), FDiv(right_ascension, dr))
        elevation == Elevation(latitude, declination, hour_angle)
        zenith_angle == ZenithAngle(elevation)
        err == FirstErr(<<T, L0, M, M_rad, e, C, L_true, f, R, sidereal_time,
                          obliquity, right_ascension, declination, hour_angle,
                          elevation, zenith_angle>>, 1)
    IN  IF err # NoValue THEN Raised(UtilExcept(err.k), <<>>)
        ELSE Returned([zenith_angle |-> zenith_angle, R |-> R], <<>>)

(***************************************************************************)
(* BirdModel.calculate                                                     *)
(***************************************************************************)
\* AM = 1.0 / (math.cos(Z_rad) + 0.15 * pow(93.885 - zenith_angle, -1.25))
AirMass(Z_rad, zenith_angle) ==
    FDiv(FOne, FAdd(FCos(Z_rad),
                    FMul(Dec(15, 2),
                         FPow(FSub(Dec(93885, 3), zenith_angle), Dec(-125, 2)))))

\* AMp = AM * p / 1013.0
PressureAirMass(AM, p) == FDiv(FMul(AM, p), FInt(1013))

\* Tr = math.exp(-0.0903 * pow(AMp, 0.84) * (1.0 + AMp - pow(AMp, 1.01)))
RayleighTr(AMp) ==
    FExp(FMul(FMul(Dec(-903, 4), FPow(AMp, Dec(84, 2))),
              FSub(FAdd(FOne, AMp), FPow(AMp, Dec(101, 2)))))

\* Toz = 1.0 - 0.1611 * Ozm * pow(1.0 + 139.48 * Ozm, -0.3035)
\*       - 0.002715 * Ozm / (1.0 + 0.044 * Ozm + 0.0003 * Ozm * Ozm)
OzoneToz(Ozm) ==
    FSub(FSub(FOne,
              FMul(FMul(Dec(1611, 4), Ozm),
                   FPow(FAdd(FOne, FMul(Dec(13948, 2), Ozm)), Dec(-3035, 4)))),
         FDiv(FMul(Dec(2715, 6), Ozm),
              FAdd(FAdd(FOne, FMul(Dec(44, 3), Ozm)),
                   FMul(FMul(Dec(3, 4), Ozm), Ozm))))

\* Tm = math.exp(-0.0127 * pow(AMp, 0.26))
MixedGasTm(AMp) == FExp(FMul(Dec(-127, 4), FPow(AMp, Dec(26, 2))))

\* Tw = 1.0 - 2.4959 * Wm / ((1.0 + pow(79.034 * Wm, 0.6828)) + 6.385 * Wm)
WaterTw(Wm) ==
    FSub(FOne,
         FDiv(FMul(Dec(24959, 4), Wm),
              FAdd(FAdd(FOne, FPow(FMul(Dec(79034, 3), Wm), Dec(6828, 4))),
                   FMul(Dec(6385, 3), Wm))))

\* Tau = 0.2758 * inputs.aot380 + 0.35 * inputs.aot500
AerosolTau(aot380, aot500) ==
    FAdd(FMul(Dec(2758, 4), aot380), FMul(Dec(35, 2), aot500))

\* Ta = math.exp((-pow(Tau, 0.873)) * (1.0 + Tau - pow(Tau, 0.7088))
\*               * pow(AM, 0.9108))
AerosolTa(Tau, AM) ==
    FExp(FMul(FMul(FNeg(FPow(Tau, Dec(873, 3))),
                   FSub(FAdd(FOne, Tau), FPow(Tau, Dec(7088, 4)))),
              FPow(AM, Dec(9108, 4))))

\* TAA = 1.0 - 0.1 * (1.0 - AM + pow(AM, 1.06)) * (1.0 - Ta)
AerosolTAA(AM, Ta) ==
    FSub(FOne,
         FMul(FMul(Dec(1, 1), FAdd(FSub(FOne, AM), FPow(AM, Dec(106, 2)))),
              FSub(FOne, Ta)))

\* Rs = 0.0685 + (1.0 - 0.84) * (1.0 - TAs)
SkyAlbedoRs(TAs) ==
    FAdd(Dec(685, 4), FMul(FSub(FOne, Dec(84, 2)), FSub(FOne, TAs)))

\* Id = Rsq * inputs.solar_constant * 0.9662 * Tr * Toz * Tm * Tw * Ta
DirectId(Rsq, solar_constant, Tr, Toz, Tm, Tw, Ta) ==
    FMul(FMul(FMul(FMul(FMul(FMul(FMul(Rsq, solar_constant), Dec(9662, 4)),
                             Tr), Toz), Tm), Tw), Ta)

\* Ias = 0.79 * inputs.solar_constant * math.cos(Z_rad) * Toz * Tm * Tw * TAA
\* Ias *= (0.5 * (1.0 - Tr) + 0.85 * (1.0 - TAs)) / (1.0 - AM + pow(AM, 1.02))
ScatteredIas(solar_constant, cosZ, Toz, Tm, Tw, TAA, Tr, TAs, AM) ==
    FMul(FMul(FMul(FMul(FMul(FMul(FMul(Dec(79, 2), solar_constant), cosZ),
                             Toz), Tm), Tw), TAA),
         FDiv(FAdd(FMul(Dec(5, 1), FSub(FOne, Tr)),
                   FMul(Dec(85, 2), FSub(FOne, TAs))),
              FAdd(FSub(FOne, AM), FPow(AM, Dec(102, 2)))))

\* Itot = (Idh + Ias) / (1.0 - inputs.albedo * Rs)
TotalItot(Idh, Ias, albedo, Rs) ==
    FDiv(FAdd(Idh, Ias), FSub(FOne, FMul(albedo, Rs)))

\* The difference taken the other way round
DiffuseReversed(Itot, Idh) == FSub(Idh, Itot)

\* Idif = Itot - Idh
DiffuseIdif(Itot, Idh) == FSub(Itot, Idh)

\* The exception re-raised with no record written
BirdRaiseUnlogged(type, records) == Raised(type, records)

\* except Exception as e: logger.error(...); raise -- the exception leaves
\* calculate as it was raised
BirdRaise(type, records) ==
    Raised(type, Append(records,
                        LogRec("ERROR", "Error in Bird model calculation",
                               <<type>>)))

\* The statements of calculate after the three utility calls, on the local
\* variables jd, p, zenith_angle and R, with a log record after each group of
\* them; records are the log records written so far
BirdModelBody(inputs, jd, p, zenith_angle, R, records) ==
    LET Z_rad == FMul(zenith_angle, DegToRad)
        AM == AirMass(Z_rad, zenith_angle)
        AMp == PressureAirMass(AM, p)
        Tr == RayleighTr(AMp)
        Ozm == FMul(inputs.ozone, AM)
        Toz == OzoneToz(Ozm)
        Tm == MixedGasTm(AMp)
        Wm == FMul(AM, inputs.water_vapor)
        Tw == WaterTw(Wm)
        Tau == AerosolTau(inputs.aot380, inputs.aot500)
        Ta == AerosolTa(Tau, AM)
        TAA == AerosolTAA(AM, Ta)
        TAs == FDiv(Ta, TAA)
        Rs == SkyAlbedoRs(TAs)
        Rsq == FDiv(FOne, FMul(R, R))
        cosZ == FCos(Z_rad)
        Id == DirectId(Rsq, inputs.solar_constant, Tr, Toz, Tm, Tw, Ta)
        Idh == FMul(Id, cosZ)
        Ias == ScatteredIas(inputs.solar_constant, cosZ, Toz, Tm, Tw, TAA, Tr,
                            TAs, AM)
        Itot == TotalItot(Idh, Ias, inputs.albedo, Rs)
        Idif == DiffuseIdif(Itot, Idh)
        err1 == FirstErr(<<Z_rad, AM, AMp>>, 1)
        err2 == FirstErr(<<Tr, Ozm, Toz, Tm, Wm, Tw, Tau, Ta, TAA, TAs, Rs>>, 1)
        err3 == FirstErr(<<Rsq, Id, Idh, Ias, Itot, Idif>>, 1)
        log3 == Append(records, LogRec("DEBUG", "Initial calculations",
                                       <<jd, p, zenith_angle>>))
        log4 == Append(log3, LogRec("DEBUG", "Air mass", <<AM, AMp>>))
        log5 == Append(log4, LogRec("DEBUG", "Atmospheric transmittances",
                                    <<Tr, Toz, Tm, Tw, Ta>>))
        log6 == Append(log5, LogRec("INFO", "Bird model completed",
                                    <<Idh, Idif, Itot>>))
    IN  IF err1 # NoValue THEN BirdRaise(err1.k, log3)
        ELSE IF err2 # NoValue THEN BirdRaise(err2.k, log4)
        ELSE IF err3 # NoValue THEN BirdRaise(err3.k, log5)
        ELSE Returned(SolarOutputs(p, jd, R, zenith_angle, AM,
                                   FMul(Rsq, inputs.solar_constant),
                                   Idh, Idif, Itot),
                      log6)

\* logger.info(f"Starting Bird model calculation ...")
BirdStartRecord(inputs) ==
    LogRec("INFO", "Starting Bird model calculation",
           <<inputs.latitude, inputs.longitude, inputs.year, inputs.month,
             inputs.day, inputs.hour, inputs.minute>>)

\* A calculate that hands the sea-level pressure of the inputs to the
\* statements of the model
BirdWithSeaLevelPressure(inputs) ==
    LET jd == JulianDateCalculate(inputs.month, inputs.day, inputs.year,
                                  inputs.hour, inputs.minute, inputs.second)
        p == station_pressure(inputs.station_pressure, inputs.elevation)
        sp == SolarPositionCalculate(jd.ret, inputs.longitude, inputs.latitude)
        log1 == <<BirdStartRecord(inputs)>> \o jd.log
        log2 == log1 \o p.log
    IN  IF jd.exc # "none" THEN BirdRaise(jd.exc, log1)
        ELSE IF p.exc # "none" THEN BirdRaise(p.exc, log2)
        ELSE IF sp.exc # "none" THEN BirdRaise(sp.exc, log2)
        ELSE BirdModelBody(inputs, jd.ret, inputs.station_pressure,
                           sp.ret.zenith_angle, sp.ret.R, log2)

\* The whole of calculate: the three utility calls, the statements of the
\* model, and the first exception raised, which ends the call
BirdModelCalculate(inputs) ==
    LET jd == JulianDateCalculate(inputs.month, inputs.day, inputs.year,
                                  inputs.hour, inputs.minute, inputs.second)
        p == station_pressure(inputs.station_pressure, inputs.elevation)
        sp == SolarPositionCalculate(jd.ret, inputs.longitude, inputs.latitude)
        log1 == <<BirdStartRecord(inputs)>> \o jd.log
        log2 == log1 \o p.log
    IN  IF jd.exc # "none" THEN BirdRaise(jd.exc, log1)
        ELSE IF p.exc # "none" THEN BirdRaise(p.exc, log2)
        ELSE IF sp.exc # "none" THEN BirdRaise(sp.exc, log2)
        ELSE BirdModelBody(inputs, jd.ret, p.ret, sp.ret.zenith_angle,
                           sp.ret.R, log2)

(***************************************************************************)
(* PVGISPlusService.calculate_day_average.  A string is a sequence of      *)
(* characters, so that slicing and int() are computed on it.  The HTTP     *)
(* exchange with the PVGIS API is the environment: the call receives what  *)
(* PVGISService.fetch_hourly_data returns or raises.                       *)
(***************************************************************************)
\* PVGISDayAverageRequest(...)
DayAverageRequest(latitude, longitude, month, day, start_year, end_year, slope, azimuth) ==
    [longitude |-> longitude, latitude |-> latitude, month |-> month,
     day |-> day, start_year |-> start_year, end_year |-> end_year,
     slope |-> slope, azimuth |-> azimuth]

\* A record of the PVGIS hourly list: {"time": ..., "G(i)": ..., ...}; the
\* field G_i stands for the key "G(i)"
HourlyRecord(time, G_i, H_sun, T2m, WS10m, Int_) ==
    [time |-> time, G_i |-> G_i, H_sun |-> H_sun, T2m |-> T2m,
     WS10m |-> WS10m, Int |-> Int_]

\* HourlyData(...)
HourlyData(hour, G_i, H_sun, T2m, WS10m, Int_, sample_count) ==
    [hour |-> hour, G_i |-> G_i, H_sun |-> H_sun, T2m |-> T2m,
     WS10m |-> WS10m, Int |-> Int_, sample_count |-> sample_count]

\* PVGISDayAverageResponse(...)
DayAverageResponse(latitude, longitude, month, day, years_analyzed, hourly_averages, peak_hour, peak_irradiance, daily_total_energy) ==
    [longitude |-> longitude, latitude |-> latitude, month |-> month,
     day |-> day, years_analyzed |-> years_analyzed,
     hourly_averages |-> hourly_averages, peak_hour |-> peak_hour,
     peak_irradiance |-> peak_irradiance,
     daily_total_energy |-> daily_total_energy]

Digits == <<"0", "1", "2", "3", "4", "5", "6", "7", "8", "9">>

IsDigit(c) == \E d \in 1 .. 10 : Digits[d] = c

DigitValue(c) == (CHOOSE d \in 1 .. 10 : Digits[d] = c) - 1

\* f"{n:02d}" for 0 <= n <= 99
TwoDigits(n) == <<Digits[(n \div 10) + 1], Digits[(n % 10) + 1]>>

\* s[a:b]: the characters at 0-based positions a .. b-1 that exist
Slice(s, a, b) == SubSeq(s, a + 1, IF b < Len(s) THEN b ELSE Len(s))

\* The value of the decimal digits of s from position i on, the
\* underscores between them skipped
RECURSIVE DigitsValue(_, _, _)
DigitsValue(s, i, acc) ==
    IF i > Len(s) THEN acc
    ELSE IF s[i] = "_" THEN DigitsValue(s, i + 1, acc)
    ELSE DigitsValue(s, i + 1, 10 * acc + DigitValue(s[i]))

\* s.strip() for the blank
RECURSIVE Strip(_)
Strip(s) ==
    IF Len(s) > 0 /\ s[1] = " " THEN Strip(Tail(s))
    ELSE IF Len(s) > 0 /\ s[Len(s)] = " " THEN Strip(SubSeq(s, 1, Len(s) - 1))
    ELSE s

\* The digits of an integer literal: decimal digits, with single underscores
\* between digits allowed
IsDigitString(ds) ==
    /\ Len(ds) > 0
    /\ IsDigit(ds[1]) /\ IsDigit(ds[Len(ds)])
    /\ \A i \in 1 .. Len(ds) : IsDigit(ds[i]) \/ ds[i] = "_"
    /\ \A i \in 1 .. Len(ds) - 1 : ~(ds[i] = "_" /\ ds[i + 1] = "_")

\* int(s) of a string: surrounding blanks are dropped, then decimal digits
\* after an optional sign give the integer; the empty string and any other
\* character raise ValueError
ParseInt(s) ==
    LET t == Strip(s)
        signed == Len(t) > 0 /\ t[1] \in {"+", "-"}
        ds == IF signed THEN Tail(t) ELSE t
    IN  IF ~IsDigitString(ds)
        THEN Raise("ValueError")
        ELSE [k |-> "int",
              m |-> (IF signed /\ t[1] = "-" THEN -1 ELSE 1)
                        * DigitsValue(ds, 1, 0),
              e |-> 0]

\* record.get(key, default)
Get(record, key, default) ==
    IF key \in DOMAIN record THEN record[key] ELSE default

\* target_date = f"{request.month:02d}{request.day:02d}"
TargetDate(request) == TwoDigits(request.month) \o TwoDigits(request.day)

\* timestamp = record.get("time", "")
Timestamp(record) == Get(record, "time", <<>>)

\* year = int(timestamp[:4])
RecordYear(record) == ParseInt(Slice(Timestamp(record), 0, 4))

\* hour = int(timestamp[9:11])
RecordHour(record) == ParseInt(Slice(Timestamp(record), 9, 11))

\* if len(timestamp) >= 8: ... if date_part == target_date:
RecordMatches(record, target_date) ==
    /\ Len(Timestamp(record)) >= 8
    /\ Slice(Timestamp(record), 4, 8) = target_date

\* The loop body raises ValueError on this record: int() of its year, or of
\* its hour when the date matches
RecordRaises(record, target_date) ==
    /\ Len(Timestamp(record)) >= 8
    /\ \/ IsErr(RecordYear(record))
       \/ RecordMatches(record, target_date) /\ IsErr(RecordHour(record))

\* hourly_groups[hour]: the matching records of the hour, in list order
HourlyGroup(hourly_data, target_date, hour) ==
    SelectSeq(hourly_data,
              LAMBDA r : RecordMatches(r, target_date)
                             /\ RecordHour(r).m = hour)

\* years_found
YearsFound(hourly_data, target_date) ==
    {RecordYear(hourly_data[i]).m :
        i \in {j \in 1 .. Len(hourly_data) :
                  RecordMatches(hourly_data[j], target_date)}}

\* sorted(list(years_found))
RECURSIVE Sorted(_)
Sorted(S) ==
    IF S = {} THEN <<>>
    ELSE LET least == CHOOSE x \in S : \A y \in S : x <= y
         IN  <<least>> \o Sorted(S \ {least})

\* sum(r[field] for r in records): the additions from the left, from 0
RECURSIVE SumField(_, _, _, _)
SumField(records, field, i, acc) ==
    IF i > Len(records) THEN acc
    ELSE SumField(records, field, i + 1,
                  FAdd(acc, Get(records[i], field, FZero)))

\* The sum divided by the number of records that carry the field
MeanOfPresent(records, field) ==
    FDiv(SumField(records, field, 1, FZero),
         FInt(Len(SelectSeq(records, LAMBDA r : field \in DOMAIN r))))

\* sum(r[field] for r in records) / len(records)
Mean(records, field) ==
    FDiv(SumField(records, field, 1, FZero), FInt(Len(records)))

\* The HourlyData of an hour that has records
HourAverage(hour, records) ==
    HourlyData(hour, Mean(records, "G_i"), Mean(records, "H_sun"),
               Mean(records, "T2m"), Mean(records, "WS10m"),
               Mean(records, "Int"), Len(records))

\* An hour that has none filled with a missing-value mark for the temperature
EmptyHourSentinel(hour) ==
    HourlyData(hour, FZero, FZero, FInt(-999), FZero, FZero, 0)

\* The HourlyData of an hour that has none
EmptyHour(hour) == HourlyData(hour, FZero, FZero, FZero, FZero, FZero, 0)

\* The list with only the hours that have records appended
AppendHourWithData(hourly_averages, hour, records) ==
    IF Len(records) > 0
    THEN Append(hourly_averages, HourAverage(hour, records))
    ELSE hourly_averages

\* hourly_averages.append(...) of either branch of "if hour in hourly_groups"
AppendHour(hourly_averages, hour, records) ==
    Append(hourly_averages,
           IF Len(records) > 0 THEN HourAverage(hour, records)
           ELSE EmptyHour(hour))

\* The total with each mean weighted by one half, as the end points of a
\* trapezoidal integral are
AddHalfToTotal(daily_total, G_i) == FAdd(daily_total, FHalf(G_i))

\* daily_total += avg_data.G_i
AddToTotal(daily_total, G_i) == FAdd(daily_total, G_i)

\* for hour in range(24): the list, the peak and the daily total after the
\* hours from hour on, given acc after the hours before it
RECURSIVE HourLoop(_, _, _, _)
HourLoop(hourly_data, target_date, hour, acc) ==
    IF hour >= 24 THEN acc
    ELSE LET records == HourlyGroup(hourly_data, target_date, hour)
             has == Len(records) > 0
             G_i == Mean(records, "G_i")
             peak == has /\ FLt(acc.peak_irradiance, G_i)
         IN  HourLoop(hourly_data, target_date, hour + 1,
                 [hourly_averages |->
                      AppendHour(acc.hourly_averages, hour, records),
                  peak_hour |-> IF peak THEN hour ELSE acc.peak_hour,
                  peak_irradiance |->
                      IF peak THEN G_i ELSE acc.peak_irradiance,
                  daily_total |->
                      IF has THEN AddToTotal(acc.daily_total, G_i)
                      ELSE acc.daily_total])

\* What PVGISService.fetch_hourly_data gave: it raised (RuntimeError), or
\* returned the hourly list of the PVGIS response
FetchFailed == [failed |-> TRUE, hourly |-> <<>>]

Fetched(hourly_data) == [failed |-> FALSE, hourly |-> hourly_data]

\* The whole of calculate_day_average on what the fetch gave: both except
\* clauses raise RuntimeError
calculate_day_average(request, data) ==
    LET target_date == TargetDate(request)
        hourly_data == data.hourly
        fetching == LogRec("INFO", "Fetching PVGIS data",
                           <<request.latitude, request.longitude>>)
        fetched == LogRec("INFO", "Successfully fetched",
                          <<Len(hourly_data)>>)
        filtering == LogRec("INFO", "Filtering data",
                            <<request.month, request.day>>)
        years == YearsFound(hourly_data, target_date)
        loop == HourLoop(hourly_data, target_date, 0,
                         [hourly_averages |-> <<>>, peak_hour |-> 0,
                          peak_irradiance |-> FZero, daily_total |-> FZero])
    IN  IF data.failed THEN Raised("RuntimeError", <<fetching>>)
        ELSE IF \E i \in 1 .. Len(hourly_data) :
                    RecordRaises(hourly_data[i], target_date)
        THEN Raised("RuntimeError", <<fetching, fetched, filtering>>)
        ELSE IF years = {}
        THEN Raised("RuntimeError", <<fetching, fetched, filtering>>)
        ELSE Returned(
                 DayAverageResponse(request.latitude, request.longitude,
                                    request.month, request.day, Sorted(years),
                                    loop.hourly_averages, loop.peak_hour,
                                    loop.peak_irradiance, loop.daily_total),
                 <<fetching, fetched, filtering,
                   LogRec("INFO", "Found data for years",
                          <<Cardinality(years), Sorted(years)>>),
                   LogRec("INFO", "Calculated averages",
                          <<loop.peak_hour, loop.peak_irradiance,
                            loop.daily_total>>)>>)

(***************************************************************************)
(* The state machine.  Each action is one call from a caller that has      *)
(* validated nothing: the utilities and the model validate no input       *)
(* themselves, so the argument sets hold the values the request schemas    *)
(* admit and a few they reject or do not bound.                            *)
(***************************************************************************)
\* The invocations of BirdModel.calculate that run at the same time
Invocations == {1, 2}

\* The frame of an invocation: where it stands in calculate, its argument,
\* its local variables jd, p, zenith_angle and R, and what it returned or
\* raised
Frame(pc, inputs, jd, p, zenith_angle, R, returned, raised) ==
    [ret |-> returned, exc |-> raised, zenith_angle |-> zenith_angle,
     R |-> R, p |-> p, inputs |-> inputs, jd |-> jd, pc |-> pc]

IdleFrame ==
    Frame("idle", NoValue, NoValue, NoValue, NoValue, NoValue, NoValue, "none")

Init ==
    /\ op = "none"
    /\ args = NoValue
    /\ ret = NoValue
    /\ exc = "none"
    /\ log = <<>>
    /\ frames = [t \in Invocations |-> IdleFrame]

Months == 1 .. 12
Days == {1, 15, 31}
\* Years from the first Gregorian one on, and two so large that float(year)
\* or the product with 365.25 leaves the float range
Years == {1582, 1600, 1900, 2000, 2024, 2100, 9999,
          Pow2(EMax - 1), 2 * (Pow2(EMax - 1) - 2500)}
\* Times of day: hour, minute, second
Times == {<<0, 0, 0>>, <<12, 0, 0>>, <<6, 30, 15>>, <<23, 59, 59>>}

\* JulianDateCalculator.calculate is called with arguments a and ends with
\* outcome o
JulianCall(a, o) ==
    /\ op' = "JulianDateCalculator.calculate"
    /\ args' = a
    /\ ret' = o.ret
    /\ exc' = o.exc
    /\ log' = o.log
    /\ UNCHANGED frames

JulianCalls ==
    \E month \in Months, day \in Days, year \in Years, t \in Times :
        JulianCall([month |-> month, day |-> day, year |-> year,
                    hour |-> t[1], minute |-> t[2], second |-> t[3]],
                   JulianDateCalculate(month, day, year, t[1], t[2], t[3]))

\* Sea-level pressures in mbar (hundredths), and one near the top of the
\* float range
SeaLevelPressures ==
    {Dec(n, 2) : n \in {-500, 0, 1, 30000, 50000, 87000, 95000, 98000,
                        100000, 101200, 101325, 105000, 110000}}
        \cup {FInt(Pow2(EMax - 1))}

\* Elevations in metres
Elevations ==
    {FInt(n) : n \in {-100000, -91539, -91500, -45770, -9000, -500, -1, 0, 1,
                      500, 9000}}
        \cup {Dec(-1, 3)}

\* PressureCalculator.station_pressure is called with arguments a and ends
\* with outcome o
PressureCall(a, o) ==
    /\ op' = "PressureCalculator.station_pressure"
    /\ args' = a
    /\ ret' = o.ret
    /\ exc' = o.exc
    /\ log' = o.log
    /\ UNCHANGED frames

PressureCalls ==
    \E p_sea_level \in SeaLevelPressures, elevation_m \in Elevations :
        PressureCall([p_sea_level |-> p_sea_level, elevation_m |-> elevation_m],
                     station_pressure(p_sea_level, elevation_m))

\* Julian Dates of supported years, and two floats no date gives
SolarDates ==
    {<<5, 3, 2024, 2, 30, 0>>, <<6, 21, 2025, 12, 0, 0>>,
     <<1, 1, 2000, 12, 0, 0>>, <<12, 21, 1582, 0, 0, 0>>,
     <<7, 4, 9999, 23, 59, 59>>, <<3, 20, 2100, 6, 0, 0>>}

JulianDates ==
    {JulianDate(t[1], t[2], t[3], t[4], t[5], t[6]) : t \in SolarDates}
        \cup {FInt(Pow2(EMax - 1)), FInf(1)}

Longitudes == {FInt(-180), FInt(-75), FZero, Dec(27149, 3), Dec(14171, 2), FInt(180)}

Latitudes == {FInt(-90), Dec(-2344, 2), FZero, Dec(1579, 2), Dec(38447, 3), FInt(90)}

\* SolarPositionCalculator.calculate is called with arguments a and ends
\* with outcome o
SolarCall(a, o) ==
    /\ op' = "SolarPositionCalculator.calculate"
    /\ args' = a
    /\ ret' = o.ret
    /\ exc' = o.exc
    /\ log' = o.log
    /\ UNCHANGED frames

SolarCalls ==
    \E julian_date \in JulianDates, longitude \in Longitudes,
       latitude \in Latitudes :
        SolarCall([longitude |-> longitude, latitude |-> latitude,
                   julian_date |-> julian_date],
                  SolarPositionCalculate(julian_date, longitude, latitude))

NextUtils == JulianCalls \/ PressureCalls \/ SolarCalls

SpecUtils == Init /\ [][NextUtils]_vars

\* Inputs of the Bird model: date and time (UTC), place, and the
\* atmospheric parameters
BirdTimes ==
    {<<6, 21, 2007, 17, 0, 0>>, <<6, 21, 2007, 5, 0, 0>>,
     <<6, 21, 2007, 0, 40, 0>>, <<8, 25, 2007, 10, 39, 0>>,
     <<1, 3, 2024, 12, 0, 0>>, <<5, 3, 2024, 2, 30, 0>>}

BirdPlaces ==
    {<<FInt(-75), FInt(40), FInt(120)>>,
     <<Dec(27149, 3), Dec(38447, 3), FInt(30)>>,
     <<FZero, FInt(-70), FInt(2800)>>,
     <<Dec(14171, 2), Dec(1579, 2), FZero>>}

Albedos == {FZero, Dec(2, 1), FOne}

Ozones == {Dec(3, 1), FInt(-1)}

\* The solar constant in W/m^2, and one near the top of the float range
SolarConstants == {FInt(1367), FInt(2 * (Pow2(EMax - 1) - 412))}

BirdInputs(t, place, albedo, ozone, solar_constant) ==
    SolarInputs(solar_constant, place[1], place[2], place[3],
                t[1], t[2], t[3], t[4], t[5], t[6],
                FInt(1012), albedo, ozone, Dec(15, 1), Dec(1, 1), Dec(15, 2))

\* BirdModel.calculate is called with inputs and ends with outcome o
BirdCall(inputs, o) ==
    /\ op' = "BirdModel.calculate"
    /\ args' = inputs
    /\ ret' = o.ret
    /\ exc' = o.exc
    /\ log' = o.log
    /\ UNCHANGED frames

BirdCalls ==
    \E t \in BirdTimes, place \in BirdPlaces, albedo \in Albedos,
       ozone \in Ozones, solar_constant \in SolarConstants :
        BirdCall(BirdInputs(t, place, albedo, ozone, solar_constant),
                 BirdModelCalculate(BirdInputs(t, place, albedo, ozone,
                                               solar_constant)))

NextBird == BirdCalls

SpecBird == Init /\ [][NextBird]_vars

(***************************************************************************)
(* Concurrent invocations of BirdModel.calculate.  Each invocation has its *)
(* own frame; the logger is the one object the invocations share, and each *)
(* step below ends with the records it writes to it.  A utility call is    *)
(* one step, and so are the statements after the three utility calls.      *)
(***************************************************************************)
ConcurrentInputs ==
    <<BirdInputs(<<6, 21, 2007, 17, 0, 0>>,
                 <<FInt(-75), FInt(40), FInt(120)>>, Dec(2, 1), Dec(3, 1),
                 FInt(1367)),
      BirdInputs(<<6, 21, 2007, 5, 0, 0>>,
                 <<FInt(-75), FInt(40), FInt(120)>>, Dec(2, 1), Dec(3, 1),
                 FInt(1367)),
      BirdInputs(<<8, 25, 2007, 10, 39, 0>>,
                 <<Dec(27149, 3), Dec(38447, 3), FInt(30)>>, FZero, Dec(3, 1),
                 FInt(1367))>>

\* The records a thread writes to the shared logger
Written(t, records) ==
    [i \in 1 .. Len(records) |-> [record |-> records[i], thread |-> t]]

\* jd kept in one place that all invocations share
AssignSharedJd(fs, t, jd) == [u \in DOMAIN fs |-> [fs[u] EXCEPT !.jd = jd]]

\* jd = JulianDateCalculator.calculate(...): jd is a local variable of the
\* invocation
AssignJd(fs, t, jd) == [fs EXCEPT ![t].jd = jd]

\* calculate is entered: logger.info
Enter(t, inputs) ==
    /\ frames[t].pc = "idle"
    /\ frames' = [frames EXCEPT ![t].pc = "julian", ![t].inputs = inputs]
    /\ log' = log \o Written(t, <<BirdStartRecord(inputs)>>)
    /\ UNCHANGED <<op, args, ret, exc>>

\* return, or except Exception: logger.error and raise
Leave(t, o) ==
    /\ frames' = [frames EXCEPT ![t].pc = "done", ![t].ret = o.ret,
                                ![t].exc = o.exc]
    /\ log' = log \o Written(t, o.log)
    /\ UNCHANGED <<op, args, ret, exc>>

\* jd = JulianDateCalculator.calculate(...) on the invocation's inputs, o
\* its outcome
JulianStep(t, inputs, o) ==
    /\ frames[t].pc = "julian"
    /\ frames[t].inputs = inputs
    /\ IF o.exc # "none"
       THEN Leave(t, BirdRaise(o.exc, o.log))
       ELSE /\ frames' = [AssignJd(frames, t, o.ret) EXCEPT
                              ![t].pc = "pressure"]
            /\ log' = log \o Written(t, o.log)
            /\ UNCHANGED <<op, args, ret, exc>>

\* p = PressureCalculator.station_pressure(...) on the invocation's inputs,
\* o its outcome
PressureStep(t, inputs, o) ==
    /\ frames[t].pc = "pressure"
    /\ frames[t].inputs = inputs
    /\ IF o.exc # "none"
       THEN Leave(t, BirdRaise(o.exc, o.log))
       ELSE /\ frames' = [frames EXCEPT ![t].pc = "solar", ![t].p = o.ret]
            /\ log' = log \o Written(t, o.log)
            /\ UNCHANGED <<op, args, ret, exc>>

\* zenith_angle, R = SolarPositionCalculator.calculate(jd, ...) on the
\* invocation's inputs and its local variable jd, o the outcome
SolarStep(t, inputs, jd, o) ==
    /\ frames[t].pc = "solar"
    /\ frames[t].inputs = inputs
    /\ frames[t].jd = jd
    /\ IF o.exc # "none"
       THEN Leave(t, BirdRaise(o.exc, o.log))
       ELSE /\ frames' = [frames EXCEPT
                              ![t].pc = "model",
                              ![t].zenith_angle = o.ret.zenith_angle,
                              ![t].R = o.ret.R]
            /\ log' = log \o Written(t, o.log)
            /\ UNCHANGED <<op, args, ret, exc>>

\* The statements after the utility calls, on the invocation's inputs and
\* its local variables jd, p, zenith_angle and R, o their outcome
ModelStep(t, inputs, jd, p, sp, o) ==
    /\ frames[t].pc = "model"
    /\ frames[t].inputs = inputs
    /\ frames[t].jd = jd
    /\ frames[t].p = p
    /\ frames[t].zenith_angle = sp.zenith_angle
    /\ frames[t].R = sp.R
    /\ Leave(t, o)

\* The values the local variable jd can hold
LocalJd ==
    {JulianDateCalculate(ConcurrentInputs[i].month, ConcurrentInputs[i].day,
                         ConcurrentInputs[i].year, ConcurrentInputs[i].hour,
                         ConcurrentInputs[i].minute,
                         ConcurrentInputs[i].second).ret :
         i \in DOMAIN ConcurrentInputs}

\* The values the local variable p can hold
LocalP ==
    {station_pressure(ConcurrentInputs[i].station_pressure,
                      ConcurrentInputs[i].elevation).ret :
         i \in DOMAIN ConcurrentInputs}

\* The values the local variables zenith_angle and R can hold
LocalZenithAndR ==
    {SolarPositionCalculate(jd, ConcurrentInputs[i].longitude,
                            ConcurrentInputs[i].latitude).ret :
         jd \in LocalJd, i \in DOMAIN ConcurrentInputs}

Enters ==
    \E t \in Invocations, i \in DOMAIN ConcurrentInputs :
        Enter(t, ConcurrentInputs[i])

JulianSteps ==
    \E t \in Invocations, i \in DOMAIN ConcurrentInputs :
        JulianStep(t, ConcurrentInputs[i],
                   JulianDateCalculate(ConcurrentInputs[i].month,
                                       ConcurrentInputs[i].day,
                                       ConcurrentInputs[i].year,
                                       ConcurrentInputs[i].hour,
                                       ConcurrentInputs[i].minute,
                                       ConcurrentInputs[i].second))

PressureSteps ==
    \E t \in Invocations, i \in DOMAIN ConcurrentInputs :
        PressureStep(t, ConcurrentInputs[i],
                     station_pressure(ConcurrentInputs[i].station_pressure,
                                      ConcurrentInputs[i].elevation))

SolarSteps ==
    \E t \in Invocations, i \in DOMAIN ConcurrentInputs, jd \in LocalJd :
        SolarStep(t, ConcurrentInputs[i], jd,
                  SolarPositionCalculate(jd, ConcurrentInputs[i].longitude,
                                         ConcurrentInputs[i].latitude))

ModelSteps ==
    \E t \in Invocations, i \in DOMAIN ConcurrentInputs, jd \in LocalJd,
       p \in LocalP, sp \in LocalZenithAndR :
        ModelStep(t, ConcurrentInputs[i], jd, p, sp,
                  BirdModelBody(ConcurrentInputs[i], jd, p, sp.zenith_angle,
                                sp.R, <<>>))

NextConcurrent ==
    Enters \/ JulianSteps \/ PressureSteps \/ SolarSteps \/ ModelSteps

SpecConcurrent == Init /\ [][NextConcurrent]_vars

\* The four components of the core, called in any order
NextCore == NextUtils \/ NextBird

SpecCore == Init /\ [][NextCore]_vars

\* A timestamp of the PVGIS hourly list: YYYYMMDD:HHMM
Stamp(year, month, day, hour, minute) ==
    TwoDigits(year \div 100) \o TwoDigits(year % 100) \o TwoDigits(month)
        \o TwoDigits(day) \o <<":">> \o TwoDigits(hour) \o TwoDigits(minute)

\* The records a fetched list is made of, in the order of the list: records
\* of the requested day in several years and hours, of another day, of a
\* year outside 2005..2006, with fields missing, and with timestamps that
\* are cut short, carry hour 24, hold a letter, or are missing
RecordPool ==
    <<HourlyRecord(Stamp(1999, 4, 15, 12, 10), FInt(50), Dec(481, 1),
                   Dec(141, 1), Dec(31, 1), FZero),
      HourlyRecord(Stamp(2005, 4, 15, 10, 10), Dec(1005, 1), Dec(352, 1),
                   FInt(15), Dec(25, 1), FZero),
      [time |-> Stamp(2005, 4, 15, 0, 10), G_i |-> FInt(-5)],
      HourlyRecord(Stamp(2005, 4, 16, 10, 10), FInt(300), Dec(355, 1),
                   FInt(16), FInt(2), FZero),
      HourlyRecord(Stamp(2006, 4, 15, 10, 10), FInt(250), Dec(353, 1),
                   Dec(172, 1), Dec(4, 1), FOne),
      [time |-> SubSeq(Stamp(2006, 4, 15, 11, 10), 1, 8), G_i |-> FInt(120)],
      HourlyRecord(Stamp(2006, 4, 15, 24, 10), FInt(10), FZero, FInt(9),
                   FOne, FZero),
      [time |-> <<"2", "0", "0", "x">> \o SubSeq(Stamp(2006, 4, 16, 9, 10), 5, 13),
       G_i |-> FInt(80)],
      [G_i |-> FInt(700), H_sun |-> FInt(60)]>>

\* The most records in a fetched list
MaxRecords == 3

\* The fetched lists: up to MaxRecords records of the pool, in its order
HourlyLists ==
    UNION {{[i \in 1 .. n |-> RecordPool[ix[i]]] :
               ix \in {jx \in [1 .. n -> 1 .. Len(RecordPool)] :
                          \A i \in 1 .. n - 1 : jx[i] <= jx[i + 1]}} :
           n \in 0 .. MaxRecords}

FetchOutcomes == {FetchFailed} \cup {Fetched(h) : h \in HourlyLists}

DayAverageRequests ==
    {DayAverageRequest(Dec(38447, 3), Dec(27149, 3), 4, d, 2005, 2006, 90, 0) :
        d \in {15, 16}}

\* PVGISPlusService.calculate_day_average is called with arguments a (the
\* request, and what the fetch gives) and ends with outcome o
DayAverageCall(a, o) ==
    /\ op' = "PVGISPlusService.calculate_day_average"
    /\ args' = a
    /\ ret' = o.ret
    /\ exc' = o.exc
    /\ log' = o.log
    /\ UNCHANGED frames

DayAverageCalls ==
    \E request \in DayAverageRequests, data \in FetchOutcomes :
        DayAverageCall([request |-> request, data |-> data],
                       calculate_day_average(request, data))

NextDayAverage == DayAverageCalls

SpecDayAverage == Init /\ [][NextDayAverage]_vars

(***************************************************************************)
(* POST /calculator/bird_model.  FastAPI builds the SolarInputsSchema from *)
(* the request body before the handler runs and answers 422 itself when    *)
(* a Field constraint fails; the handler then calls the model with the     *)
(* schema object and turns what it raises into an HTTPException.           *)
(***************************************************************************)
\* The response the client gets
HttpResponse(status_code, body) == [status_code |-> status_code, body |-> body]

\* The Field constraints of SolarInputsSchema: the ge/le bounds of month,
\* day, year, hour, minute, second and albedo; the other fields have none
SolarInputsSchemaAccepts(inputs) ==
    /\ inputs.month >= 1 /\ inputs.month <= 12
    /\ inputs.day >= 1 /\ inputs.day <= 31
    /\ inputs.year >= 1900 /\ inputs.year <= 2100
    /\ inputs.hour >= 0 /\ inputs.hour <= 23
    /\ inputs.minute >= 0 /\ inputs.minute <= 59
    /\ inputs.second >= 0 /\ inputs.second <= 59
    /\ FLe(FZero, inputs.albedo) /\ FLe(inputs.albedo, FOne)

\* SolarOutputsSchema(**output_dict): every field is a float, which a
\* complex number is not (ValidationError)
SolarOutputsSchemaAccepts(outputs) ==
    \A f \in DOMAIN outputs : outputs[f].k # "cplx"

\* The body of the handler bird_model, given the outcome o of
\* BirdModel.calculate(inputs)
BirdModelHandler(o) ==
    LET starting == LogRec("DEBUG", "Starting Bird model calculation", <<>>)
        records == <<starting>> \o o.log
    IN  IF o.exc = "none" /\ SolarOutputsSchemaAccepts(o.ret)
        THEN Returned(HttpResponse(200, o.ret),
                      Append(records,
                             LogRec("DEBUG", "Bird model outputs", <<>>)))
        ELSE IF o.exc = "none"
        THEN [ret |-> HttpResponse(422, NoValue), exc |-> "HTTPException",
              log |-> Append(records,
                             LogRec("ERROR", "Validation error while processing Bird model",
                                    <<>>))]
        ELSE IF o.exc = "ValueError"
        THEN [ret |-> HttpResponse(400, NoValue), exc |-> "HTTPException",
              log |-> Append(records,
                             LogRec("ERROR", "Value error in Bird model calculation",
                                    <<>>))]
        ELSE [ret |-> HttpResponse(500, NoValue), exc |-> "HTTPException",
              log |-> Append(records,
                             LogRec("ERROR", "Unexpected error in Bird model endpoint",
                                    <<o.exc>>))]

\* The endpoint on a request body: rejected by the schema, or handled
bird_model(inputs) ==
    IF ~SolarInputsSchemaAccepts(inputs)
    THEN [ret |-> HttpResponse(422, NoValue),
          exc |-> "RequestValidationError", log |-> <<>>]
    ELSE BirdModelHandler(BirdModelCalculate(inputs))

\* A request body: the schema's example with the given date, time, place
\* and albedo
BirdRequest(date, t, place, albedo) ==
    SolarInputs(FInt(1367), place[1], place[2], FInt(120),
                date[1], date[2], date[3], t[1], t[2], t[3],
                FInt(1012), albedo, Dec(3, 1), Dec(15, 1), Dec(1, 1),
                Dec(15, 2))

\* Dates within the Field bounds: two days of the calendar, and 29 February
\* 2023, 31 February and 31 June, which no calendar has
RequestDates ==
    {<<6, 21, 2007>>, <<2, 29, 2024>>, <<2, 29, 2023>>, <<2, 31, 2007>>,
     <<6, 31, 2007>>}

RequestTimes == {<<5, 0, 0>>, <<17, 0, 0>>}

\* Longitude and latitude: the example's, and values past the date line and
\* the poles
RequestPlaces ==
    {<<FInt(-75), FInt(40)>>, <<FInt(-75), FInt(95)>>,
     <<FInt(181), FInt(40)>>, <<FInt(-181), FInt(-91)>>}

\* The example with one bounded field just outside its bounds
OutOfBoundsRequests ==
    {BirdRequest(<<m, 21, 2007>>, <<17, 0, 0>>, <<FInt(-75), FInt(40)>>,
                 Dec(2, 1)) : m \in {0, 13}}
    \cup {BirdRequest(<<6, d, 2007>>, <<17, 0, 0>>, <<FInt(-75), FInt(40)>>,
                      Dec(2, 1)) : d \in {0, 32}}
    \cup {BirdRequest(<<6, 21, y>>, <<17, 0, 0>>, <<FInt(-75), FInt(40)>>,
                      Dec(2, 1)) : y \in {1899, 2101}}
    \cup {BirdRequest(<<6, 21, 2007>>, t, <<FInt(-75), FInt(40)>>,
                      Dec(2, 1)) :
             t \in {<<-1, 0, 0>>, <<24, 0, 0>>, <<17, -1, 0>>, <<17, 60, 0>>,
                    <<17, 0, -1>>, <<17, 0, 60>>}}
    \cup {BirdRequest(<<6, 21, 2007>>, <<17, 0, 0>>, <<FInt(-75), FInt(40)>>,
                      albedo) : albedo \in {Dec(-1, 1), Dec(15, 1)}}

BirdRequests ==
    OutOfBoundsRequests
    \cup {BirdRequest(date, t, place, albedo) :
             date \in RequestDates, t \in RequestTimes,
             place \in RequestPlaces, albedo \in Albedos}

\* POST /calculator/bird_model with body inputs ends with outcome o
BirdEndpointCall(inputs, o) ==
    /\ op' = "POST /calculator/bird_model"
    /\ args' = inputs
    /\ ret' = o.ret
    /\ exc' = o.exc
    /\ log' = o.log
    /\ UNCHANGED frames

BirdEndpointCalls ==
    \E inputs \in BirdRequests : BirdEndpointCall(inputs, bird_model(inputs))

NextBirdEndpoint == BirdEndpointCalls

SpecBirdEndpoint == Init /\ [][NextBirdEndpoint]_vars

(***************************************************************************)
(* POST /utils/julian-day, /utils/solar-position and                       *)
(* /utils/solar-position/batch.  As above, FastAPI answers 422 for a body  *)
(* that fails a Field constraint and only then runs the handler.           *)
(***************************************************************************)
\* f"{n:04d}" for 0 <= n <= 9999
FourDigits(n) == TwoDigits(n \div 100) \o TwoDigits(n % 100)

\* f"{year:04d}-{month:02d}-{day:02d}"
IsoDate(year, month, day) ==
    FourDigits(year) \o <<"-">> \o TwoDigits(month) \o <<"-">>
        \o TwoDigits(day)

\* f"{date}T{hour:02d}:{minute:02d}:{second:02d}"
IsoDateTime(year, month, day, hour, minute, second) ==
    IsoDate(year, month, day) \o <<"T">> \o TwoDigits(hour) \o <<":">>
        \o TwoDigits(minute) \o <<":">> \o TwoDigits(second)

\* The Field constraints the three request schemas put on the date
DateFieldsAccepted(request) ==
    /\ request.year >= 1582 /\ request.year <= 9999
    /\ request.month >= 1 /\ request.month <= 12
    /\ request.day >= 1 /\ request.day <= 31

\* ... and on the time of day
TimeFieldsAccepted(request) ==
    /\ request.hour >= 0 /\ request.hour <= 23
    /\ request.minute >= 0 /\ request.minute <= 59
    /\ request.second >= 0 /\ request.second <= 59

\* ... and on the place
PlaceFieldsAccepted(request) ==
    /\ FLe(FInt(-90), request.latitude) /\ FLe(request.latitude, FInt(90))
    /\ FLe(FInt(-180), request.longitude)
    /\ FLe(request.longitude, FInt(180))

JulianDayRequestAccepts(request) ==
    DateFieldsAccepted(request) /\ TimeFieldsAccepted(request)

SolarPositionRequestAccepts(request) ==
    /\ DateFieldsAccepted(request)
    /\ TimeFieldsAccepted(request)
    /\ PlaceFieldsAccepted(request)

SolarPositionBatchRequestAccepts(request) ==
    /\ PlaceFieldsAccepted(request)
    /\ DateFieldsAccepted(request)
    /\ request.hour_start >= 0 /\ request.hour_start <= 23
    /\ request.hour_end >= 0 /\ request.hour_end <= 23
    /\ request.hour_step >= 1 /\ request.hour_step <= 24

\* The answer FastAPI gives for a body the schema rejects
RequestRejected ==
    [ret |-> HttpResponse(422, NoValue), exc |-> "RequestValidationError",
     log |-> <<>>]

\* The except clauses of the handlers of the utilities: ValueError and
\* OverflowError become 400, every other exception 500
UtilsHandlerExcept(type, what, records) ==
    [ret |-> HttpResponse(IF type \in {"ValueError", "OverflowError"}
                          THEN 400 ELSE 500, NoValue),
     exc |-> "HTTPException",
     log |-> Append(records, LogRec("ERROR", what, <<type>>))]

\* The body of calculate_julian_day, given the outcome o of
\* JulianDateCalculator.calculate
JulianDayHandler(request, o) ==
    LET records ==
            <<LogRec("INFO", "Calculating Julian Date for",
                     <<request.year, request.month, request.day,
                       request.hour, request.minute, request.second>>)>>
                \o o.log
    IN  IF o.exc = "none"
        THEN Returned(
                 HttpResponse(200,
                     [julian_date |-> o.ret,
                      input_date |-> IsoDateTime(request.year, request.month,
                                                 request.day, request.hour,
                                                 request.minute,
                                                 request.second)]),
                 Append(records,
                        LogRec("INFO", "Julian Date calculated", <<o.ret>>)))
        ELSE UtilsHandlerExcept(o.exc, "Error in Julian Date calculation",
                                records)

\* POST /utils/julian-day
calculate_julian_day(request) ==
    IF ~JulianDayRequestAccepts(request) THEN RequestRejected
    ELSE JulianDayHandler(request,
             JulianDateCalculate(request.month, request.day, request.year,
                                 request.hour, request.minute,
                                 request.second))

\* The rest of calculate_solar_position once the Julian Date is known (jd
\* is what JulianDateCalculator.calculate returned, or the julian_date of
\* the request), given the outcome o of SolarPositionCalculator.calculate
SolarPositionRespond(request, datetime_str, jd, records, o) ==
    IF o.exc = "none"
    THEN LET solar_elevation == FSub(FInt(90), o.ret.zenith_angle)
         IN  Returned(
                 HttpResponse(200,
                     [longitude |-> request.longitude,
                      latitude |-> request.latitude,
                      julian_date |-> jd,
                      earth_sun_distance |-> o.ret.R,
                      zenith_angle |-> o.ret.zenith_angle,
                      solar_elevation |-> solar_elevation,
                      datetime_utc |-> datetime_str]),
                 Append(records \o o.log,
                        LogRec("INFO", "Solar position calculated",
                               <<o.ret.zenith_angle, solar_elevation,
                                 o.ret.R>>)))
    ELSE UtilsHandlerExcept(o.exc, "Error in solar position calculation",
                            records \o o.log)

\* The body of calculate_solar_position when the request gives no
\* julian_date, given the outcome o of JulianDateCalculator.calculate
SolarPositionFromDate(request, records, o) ==
    IF o.exc # "none"
    THEN UtilsHandlerExcept(o.exc, "Error in solar position calculation",
                            records \o o.log)
    ELSE SolarPositionRespond(
             request,
             IsoDateTime(request.year, request.month, request.day,
                         request.hour, request.minute, request.second),
             o.ret, records \o o.log,
             SolarPositionCalculate(o.ret, request.longitude,
                                    request.latitude))

\* The body of calculate_solar_position (the text that stands for the date
\* of a request with julian_date is kept whole, as one element)
SolarPositionHandler(request, records) ==
    IF request.julian_date # NoValue
    THEN SolarPositionRespond(
             request, <<"N/A (JD provided directly)">>, request.julian_date,
             records,
             SolarPositionCalculate(request.julian_date, request.longitude,
                                    request.latitude))
    ELSE SolarPositionFromDate(
             request, records,
             JulianDateCalculate(request.month, request.day, request.year,
                                 request.hour, request.minute,
                                 request.second))

\* POST /utils/solar-position
calculate_solar_position(request) ==
    IF ~SolarPositionRequestAccepts(request) THEN RequestRejected
    ELSE SolarPositionHandler(
             request,
             <<LogRec("INFO", "Calculating solar position",
                      <<request.latitude, request.longitude, request.year,
                        request.month, request.day, request.hour,
                        request.minute, request.second>>)>>)

\* The dict appended to hourly_positions for an hour
HourlyPosition(request, hour, julian_date, position) ==
    [hour |-> hour,
     julian_date |-> julian_date,
     earth_sun_distance |-> FRound(position.R, 6),
     zenith_angle |-> FRound(position.zenith_angle, 4),
     solar_elevation |-> FRound(FSub(FInt(90), position.zenith_angle), 4),
     datetime_utc |-> IsoDateTime(request.year, request.month, request.day,
                                  hour, 0, 0)]

\* for hour in range(hour_start, hour_end + 1, hour_step): the loop from
\* hour on, with the positions and log records of the hours before it;
\* BatchJulian and BatchSolar are the two calls of the loop body, each
\* given the outcome of its call
RECURSIVE BatchLoop(_, _, _, _)
BatchSolar(request, hour, hourly_positions, records, julian_date, o) ==
    IF o.exc # "none"
    THEN UtilsHandlerExcept(o.exc,
                            "Error in batch solar position calculation",
                            records \o o.log)
    ELSE BatchLoop(request, hour + request.hour_step,
                   Append(hourly_positions,
                          HourlyPosition(request, hour, julian_date, o.ret)),
                   records \o o.log)

BatchJulian(request, hour, hourly_positions, records, o) ==
    IF o.exc # "none"
    THEN UtilsHandlerExcept(o.exc,
                            "Error in batch solar position calculation",
                            records \o o.log)
    ELSE BatchSolar(request, hour, hourly_positions, records \o o.log, o.ret,
                    SolarPositionCalculate(o.ret, request.longitude,
                                           request.latitude))

BatchLoop(request, hour, hourly_positions, records) ==
    IF hour > request.hour_end
    THEN Returned(
             HttpResponse(200,
                 [longitude |-> request.longitude,
                  latitude |-> request.latitude,
                  date |-> IsoDate(request.year, request.month, request.day),
                  hourly_positions |-> hourly_positions]),
             Append(records,
                    LogRec("INFO", "Batch calculation completed",
                           <<Len(hourly_positions)>>)))
    ELSE BatchJulian(request, hour, hourly_positions, records,
                     JulianDateCalculate(request.month, request.day,
                                         request.year, hour, 0, 0))

\* POST /utils/solar-position/batch
calculate_solar_position_batch(request) ==
    IF ~SolarPositionBatchRequestAccepts(request) THEN RequestRejected
    ELSE BatchLoop(request, request.hour_start, <<>>,
                   <<LogRec("INFO", "Batch solar position calculation",
                            <<request.latitude, request.longitude,
                              request.year, request.month, request.day,
                              request.hour_start, request.hour_end,
                              request.hour_step>>)>>)

\* JulianDayRequest(...), also the date and time of a SolarPositionRequest
JulianDayRequest(year, month, day, hour, minute, second) ==
    [month |-> month, day |-> day, year |-> year, hour |-> hour,
     minute |-> minute, second |-> second]

\* SolarPositionRequest(...); julian_date is NoValue when the body has none
SolarPositionRequest(year, month, day, hour, minute, second, latitude, longitude, julian_date) ==
    [longitude |-> longitude, latitude |-> latitude, month |-> month,
     day |-> day, year |-> year, hour |-> hour, minute |-> minute,
     second |-> second, julian_date |-> julian_date]

\* SolarPositionBatchRequest(...)
SolarPositionBatchRequest(latitude, longitude, year, month, day, hour_start, hour_end, hour_step) ==
    [longitude |-> longitude, latitude |-> latitude, month |-> month,
     day |-> day, year |-> year, hour_start |-> hour_start,
     hour_end |-> hour_end, hour_step |-> hour_step]

\* Dates of request bodies as <<year, month, day>>: the first Gregorian day
\* 1582-10-15, days of 1582 before it, the last day of 1581, days of the
\* example and of the last year, and fields outside their bounds
EndpointDates ==
    {<<1582, 10, 15>>, <<1582, 10, 14>>, <<1582, 10, 4>>, <<1582, 1, 1>>,
     <<1581, 12, 31>>, <<2025, 4, 15>>, <<9999, 12, 31>>, <<10000, 1, 1>>,
     <<2025, 0, 15>>, <<2025, 13, 15>>, <<2025, 4, 0>>, <<2025, 4, 32>>}

EndpointTimes ==
    {<<0, 0, 0>>, <<12, 30, 0>>, <<23, 59, 59>>, <<24, 0, 0>>, <<-1, 0, 0>>,
     <<12, 60, 0>>, <<12, 0, 60>>}

JulianDayRequests ==
    {JulianDayRequest(d[1], d[2], d[3], t[1], t[2], t[3]) :
        d \in EndpointDates, t \in EndpointTimes}

\* Latitude and longitude: the example's, the south pole on the date line,
\* and values past the pole and past the date line
EndpointPlaces ==
    {<<Dec(38447, 3), Dec(27149, 3)>>, <<FInt(-90), FInt(-180)>>,
     <<FInt(91), FZero>>, <<FZero, FInt(181)>>}

\* The julian_date of a body: none, the noon before 1582-10-15, and the
\* example's
ProvidedJulianDates == {NoValue, FInt(2299160), FInt(2460116)}

SolarPositionRequests ==
    {SolarPositionRequest(d[1], d[2], d[3], t[1], t[2], t[3], place[1],
                          place[2], jd) :
        d \in {<<1582, 10, 15>>, <<1582, 1, 1>>, <<1581, 12, 31>>,
               <<2025, 6, 21>>},
        t \in {<<0, 0, 0>>, <<12, 0, 0>>},
        place \in EndpointPlaces, jd \in ProvidedJulianDates}

\* hour_start, hour_end, hour_step: four hours of the day, two, one, none
\* (the start after the end), one step past the end, and a step and an end
\* outside their bounds
BatchHours ==
    {<<0, 23, 6>>, <<6, 18, 12>>, <<12, 12, 1>>, <<18, 6, 1>>, <<0, 23, 24>>,
     <<0, 23, 0>>, <<0, 24, 1>>}

SolarPositionBatchRequests ==
    {SolarPositionBatchRequest(place[1], place[2], d[1], d[2], d[3], h[1],
                               h[2], h[3]) :
        d \in {<<1582, 10, 15>>, <<1582, 1, 1>>, <<1581, 6, 21>>,
               <<2025, 6, 21>>},
        place \in {<<Dec(38447, 3), Dec(27149, 3)>>, <<FInt(91), FZero>>},
        h \in BatchHours}

\* A request to one of the endpoints of the utilities ends with outcome o
UtilsEndpointCall(endpoint, request, o) ==
    /\ op' = endpoint
    /\ args' = request
    /\ ret' = o.ret
    /\ exc' = o.exc
    /\ log' = o.log
    /\ UNCHANGED frames

JulianDayEndpointCalls ==
    \E request \in JulianDayRequests :
        UtilsEndpointCall("POST /utils/julian-day", request,
                          calculate_julian_day(request))

SolarPositionEndpointCalls ==
    \E request \in SolarPositionRequests :
        UtilsEndpointCall("POST /utils/solar-position", request,
                          calculate_solar_position(request))

SolarPositionBatchEndpointCalls ==
    \E request \in SolarPositionBatchRequests :
        UtilsEndpointCall("POST /utils/solar-position/batch", request,
                          calculate_solar_position_batch(request))

NextUtilsEndpoints ==
    \/ JulianDayEndpointCalls
    \/ SolarPositionEndpointCalls
    \/ SolarPositionBatchEndpointCalls

SpecUtilsEndpoints == Init /\ [][NextUtilsEndpoints]_vars

(***************************************************************************)
(* core.response_utils.truncate_large_arrays.  A dict is the sequence of   *)
(* its entries in insertion order; a value is a list, a dict or a scalar.  *)
(***************************************************************************)
\* settings.MAX_RECORDS_PER_ARRAY
MAX_RECORDS_PER_ARRAY == 500

ListValue(items) == [list |-> items]

DictValue(entries) == [dict |-> entries]

ScalarValue(v) == [scalar |-> v]

\* An int where None can stand as well
IntValue(n) == [int |-> n]

\* isinstance(value, list)
IsList(value) == "list" \in DOMAIN value

\* isinstance(value, dict)
IsDict(value) == "dict" \in DOMAIN value

Entry(key, value) == [key |-> key, value |-> value]

\* key in d
HasKey(d, key) == \E i \in DOMAIN d : d[i].key = key

\* d[key]
Item(d, key) == d[CHOOSE i \in DOMAIN d : d[i].key = key].value

\* d[key] = value: a present key keeps its place, a new one goes last
SetItem(d, key, value) ==
    IF HasKey(d, key)
    THEN [i \in DOMAIN d |-> IF d[i].key = key THEN Entry(key, value) ELSE d[i]]
    ELSE Append(d, Entry(key, value))

\* value[:max_records]: a negative bound counts from the end of the list
SliceTo(value, max_records) ==
    IF max_records >= 0
    THEN SubSeq(value, 1, IF max_records < Len(value) THEN max_records
                          ELSE Len(value))
    ELSE SubSeq(value, 1, Len(value) + max_records)

\* f"{top_key}.{key}"
ArrayName(top_key, key) == top_key \o "." \o key

\* {'original_count': ..., 'returned_count': ..., 'truncated_count': ...}
TruncationInfo(original_count, max_records) ==
    [original_count |-> original_count, returned_count |-> max_records,
     truncated_count |-> original_count - max_records]

\* The state of the two loops: result[top_key] or result, truncated,
\* truncation_info and the warnings logged
LoopState(d, truncated, truncation_info, records) ==
    [d |-> d, records |-> records, truncated |-> truncated,
     truncation_info |-> truncation_info]

\* One list of result[top_key] longer than max_records: lines 57-68
TruncateList(top_key, key, value, max_records, acc) ==
    LoopState(SetItem(acc.d, key, ListValue(SliceTo(value, max_records))),
              TRUE,
              SetItem(acc.truncation_info, ArrayName(top_key, key),
                      TruncationInfo(Len(value), max_records)),
              Append(acc.records,
                     LogRec("WARNING", "Truncated",
                            <<ArrayName(top_key, key), Len(value),
                              max_records>>)))

\* for key, value in result[top_key].items(): from the i-th entry on
RECURSIVE ItemLoop(_, _, _, _)
ItemLoop(top_key, max_records, i, acc) ==
    IF i > Len(acc.d) THEN acc
    ELSE ItemLoop(top_key, max_records, i + 1,
             IF /\ IsList(acc.d[i].value)
                /\ Len(acc.d[i].value.list) > max_records
             THEN TruncateList(top_key, acc.d[i].key, acc.d[i].value.list,
                               max_records, acc)
             ELSE acc)

\* One top-level key that holds a dict: lines 53-68
CheckKey(top_key, max_records, acc, inner) ==
    LoopState(SetItem(acc.d, top_key, DictValue(inner.d)), inner.truncated,
              inner.truncation_info, inner.records)

\* for top_key in keys_to_check: from the k-th key on
RECURSIVE KeyLoop(_, _, _, _)
KeyLoop(keys_to_check, max_records, k, acc) ==
    IF k > Len(keys_to_check) THEN acc
    ELSE KeyLoop(keys_to_check, max_records, k + 1,
             IF ~HasKey(acc.d, keys_to_check[k]) THEN acc
             ELSE IF ~IsDict(Item(acc.d, keys_to_check[k])) THEN acc
             ELSE CheckKey(keys_to_check[k], max_records, acc,
                      ItemLoop(keys_to_check[k], max_records, 1,
                          LoopState(Item(acc.d, keys_to_check[k]).dict,
                                    acc.truncated, acc.truncation_info,
                                    acc.records))))

\* result['_truncation_warning'] = {'message': ..., 'truncated_arrays': ...}
TruncationWarning(max_records, truncation_info) ==
    [message |-> <<"Response truncated to", max_records,
                   "records per array for client compatibility">>,
     truncated_arrays |-> truncation_info]

\* lines 70-79
TruncateReturn(max_records, acc) ==
    Returned(IF acc.truncated
             THEN SetItem(acc.d, "_truncation_warning",
                          TruncationWarning(max_records, acc.truncation_info))
             ELSE acc.d,
             acc.records)

\* max_records or MAX_RECORDS_PER_ARRAY: lines 34-35
MaxRecordsOrDefault(max_records) ==
    IF max_records = NoValue THEN MAX_RECORDS_PER_ARRAY ELSE max_records.int

\* keys_to_check or ['outputs']: lines 37-38
KeysOrDefault(keys_to_check) ==
    IF keys_to_check = NoValue THEN <<"outputs">> ELSE keys_to_check.list

truncate_large_arrays(data, max_records, keys_to_check) ==
    TruncateReturn(MaxRecordsOrDefault(max_records),
                   KeyLoop(KeysOrDefault(keys_to_check),
                           MaxRecordsOrDefault(max_records), 1,
                           LoopState(data, FALSE, <<>>, <<>>)))

\* Lists of 0, 1 and 3 records, and one longer than the default bound
ShortLists == {<<>>, <<11>>, <<11, 12, 13>>}

LongList == [i \in 1 .. MAX_RECORDS_PER_ARRAY + 1 |-> i]

TruncateData ==
    {<<Entry("outputs", DictValue(<<Entry("hourly", ListValue(a)),
                                    Entry("daily", ListValue(b))>>))>> :
         a, b \in ShortLists}
    \cup {<<Entry("inputs", ListValue(<<1, 2, 3>>)),
            Entry("outputs", DictValue(<<Entry("hourly", ListValue(a)),
                                         Entry("n", ScalarValue(5))>>))>> :
              a \in ShortLists}
    \cup {<<Entry("inputs", DictValue(<<Entry("hourly", ListValue(a))>>))>> :
              a \in ShortLists}
    \cup {<<Entry("outputs", DictValue(<<Entry("hourly", ListValue(LongList)),
                                         Entry("daily", ListValue(<<11>>))>>))>>,
          <<Entry("outputs", DictValue(<<Entry("hourly", ListValue(<<11>>))>>)),
            Entry("_truncation_warning", ScalarValue("x"))>>}

\* max_records: None, or a bound
TruncateMaxRecords ==
    <<NoValue, IntValue(-1), IntValue(0), IntValue(1), IntValue(2),
      IntValue(3)>>

\* keys_to_check: None, or a list of keys
TruncateKeys ==
    <<NoValue, ListValue(<<>>), ListValue(<<"outputs">>),
      ListValue(<<"inputs", "outputs">>),
      ListValue(<<"outputs", "outputs">>)>>

\* truncate_large_arrays is called with a and ends with outcome o
TruncateCall(a, o) ==
    /\ op' = "truncate_large_arrays"
    /\ args' = a
    /\ ret' = o.ret
    /\ exc' = o.exc
    /\ log' = o.log
    /\ UNCHANGED frames

TruncateCalls ==
    \E data \in TruncateData, m \in DOMAIN TruncateMaxRecords,
       k \in DOMAIN TruncateKeys :
        TruncateCall([data |-> data, max_records |-> TruncateMaxRecords[m],
                      keys_to_check |-> TruncateKeys[k]],
                     truncate_large_arrays(data, TruncateMaxRecords[m],
                                           TruncateKeys[k]))

NextTruncate == TruncateCalls

SpecTruncate == Init /\ [][NextTruncate]_vars

(***************************************************************************)
(* truncate_large_arrays on objects.  The heap is the sequence of the      *)
(* dicts and lists that exist, an object is known by its place in it, and  *)
(* a dict holds references to the dicts and lists it contains, so that an  *)
(* assignment to an item of a dict changes the dict for every holder of a  *)
(* reference to it.                                                        *)
(***************************************************************************)
Ref(at) == [ref |-> at]

IsRef(value) == "ref" \in DOMAIN value

\* The object a value of a dict stands for
Object(heap, value) == IF IsRef(value) THEN heap[value.ref] ELSE value

\* A copy that is the dict itself
AliasDict(heap, at) == [at |-> at, heap |-> heap]

\* d.copy(): a new dict with the items of the dict at the given place
CopyDict(heap, at) == [at |-> Len(heap) + 1, heap |-> Append(heap, heap[at])]

\* d[key] = value, for the dict at the given place
Store(heap, at, key, value) ==
    [heap EXCEPT ![at] = DictValue(SetItem(heap[at].dict, key, value))]

\* The state of the two loops: the heap, the place of result, truncated,
\* truncation_info and the warnings logged
HeapState(heap, result, truncated, truncation_info, records) ==
    [records |-> records, result |-> result, truncated |-> truncated,
     truncation_info |-> truncation_info, heap |-> heap]

\* Lines 57-68: the slice is a new list, stored in result[top_key]
HeapTruncateList(top_key, key, value, max_records, at, acc) ==
    HeapState(Store(Append(acc.heap, ListValue(SliceTo(value, max_records))),
                    at, key, Ref(Len(acc.heap) + 1)),
              acc.result, TRUE,
              SetItem(acc.truncation_info, ArrayName(top_key, key),
                      TruncationInfo(Len(value), max_records)),
              Append(acc.records,
                     LogRec("WARNING", "Truncated",
                            <<ArrayName(top_key, key), Len(value),
                              max_records>>)))

\* for key, value in result[top_key].items(): from the i-th item on, for
\* result[top_key] at the given place
RECURSIVE HeapItemLoop(_, _, _, _, _)
HeapItemLoop(top_key, max_records, at, i, acc) ==
    IF i > Len(acc.heap[at].dict) THEN acc
    ELSE HeapItemLoop(top_key, max_records, at, i + 1,
             IF /\ IsList(Object(acc.heap, acc.heap[at].dict[i].value))
                /\ Len(Object(acc.heap, acc.heap[at].dict[i].value).list)
                       > max_records
             THEN HeapTruncateList(
                      top_key, acc.heap[at].dict[i].key,
                      Object(acc.heap, acc.heap[at].dict[i].value).list,
                      max_records, at, acc)
             ELSE acc)

\* Lines 53-68: result[top_key] = result[top_key].copy(), and the loop over
\* the items of the copy
HeapCheckKey(top_key, max_records, acc, copy) ==
    HeapItemLoop(top_key, max_records, copy.at, 1,
                 HeapState(Store(copy.heap, acc.result, top_key, Ref(copy.at)),
                           acc.result, acc.truncated, acc.truncation_info,
                           acc.records))

\* for top_key in keys_to_check: from the k-th key on
RECURSIVE HeapKeyLoop(_, _, _, _)
HeapKeyLoop(keys_to_check, max_records, k, acc) ==
    IF k > Len(keys_to_check) THEN acc
    ELSE HeapKeyLoop(keys_to_check, max_records, k + 1,
             IF ~HasKey(acc.heap[acc.result].dict, keys_to_check[k]) THEN acc
             ELSE IF ~IsDict(Object(acc.heap,
                                    Item(acc.heap[acc.result].dict,
                                         keys_to_check[k])))
             THEN acc
             ELSE HeapCheckKey(keys_to_check[k], max_records, acc,
                      CopyDict(acc.heap,
                               Item(acc.heap[acc.result].dict,
                                    keys_to_check[k]).ref)))

\* Lines 70-79: the warning is stored in result, and result is returned
HeapTruncateReturn(max_records, acc) ==
    Returned([result |-> acc.result,
              heap |-> IF acc.truncated
                       THEN Store(acc.heap, acc.result, "_truncation_warning",
                                  TruncationWarning(max_records,
                                                    acc.truncation_info))
                       ELSE acc.heap],
             acc.records)

\* Lines 41-68: result = data.copy(), and the loop over keys_to_check
HeapTruncateLoop(max_records, keys_to_check, copy) ==
    HeapKeyLoop(keys_to_check, max_records, 1,
                HeapState(copy.heap, copy.at, FALSE, <<>>, <<>>))

\* truncate_large_arrays(data, max_records, keys_to_check) for the dict at
\* the place data of the heap
truncate_objects(heap, data, max_records, keys_to_check) ==
    HeapTruncateReturn(MaxRecordsOrDefault(max_records),
                       HeapTruncateLoop(MaxRecordsOrDefault(max_records),
                                        KeysOrDefault(keys_to_check),
                                        CopyDict(heap, data)))

\* The value a value of a dict stands for, with the dicts and lists it
\* refers to in place of the references
RECURSIVE Deref(_, _)
Deref(heap, value) ==
    IF ~IsRef(value) THEN value
    ELSE IF ~IsDict(heap[value.ref]) THEN heap[value.ref]
    ELSE DictValue([i \in DOMAIN heap[value.ref].dict |->
                       Entry(heap[value.ref].dict[i].key,
                             Deref(heap, heap[value.ref].dict[i].value))])

\* The lists of a heap
HeapLists == ShortLists \cup {LongList}

\* Heaps with the argument at place 1: 'inputs' and 'outputs' hold two
\* dicts that share a list, or one and the same dict, or 'outputs' holds a
\* list
TruncateHeaps ==
    {<<DictValue(<<Entry("inputs", Ref(2)), Entry("outputs", Ref(3))>>),
       DictValue(<<Entry("hourly", Ref(4))>>),
       DictValue(<<Entry("hourly", Ref(4)), Entry("daily", Ref(5)),
                   Entry("n", ScalarValue(5))>>),
       ListValue(a), ListValue(b)>> : a, b \in HeapLists}
    \cup {<<DictValue(<<Entry("inputs", Ref(2)), Entry("outputs", Ref(2))>>),
            DictValue(<<Entry("hourly", Ref(3))>>), ListValue(a)>> :
              a \in HeapLists}
    \cup {<<DictValue(<<Entry("outputs", Ref(2))>>), ListValue(a)>> :
              a \in HeapLists}

\* truncate_large_arrays is called with the dict at place 1 of a heap and
\* ends with outcome o
TruncateObjectsCall(a, o) ==
    /\ op' = "truncate_large_arrays(data)"
    /\ args' = a
    /\ ret' = o.ret
    /\ exc' = o.exc
    /\ log' = o.log
    /\ UNCHANGED frames

TruncateObjectsCalls ==
    \E heap \in TruncateHeaps, m \in DOMAIN TruncateMaxRecords,
       k \in DOMAIN TruncateKeys :
        TruncateObjectsCall(
            [data |-> 1, max_records |-> TruncateMaxRecords[m],
             keys_to_check |-> TruncateKeys[k], heap |-> heap],
            truncate_objects(heap, 1, TruncateMaxRecords[m], TruncateKeys[k]))

NextTruncateObjects == TruncateObjectsCalls

SpecTruncateObjects == Init /\ [][NextTruncateObjects]_vars

(***************************************************************************)
(* POST /pvgis-plus/day-average and POST /pvgis/day-average.  FastAPI      *)
(* answers 422 for a body that fails a Field constraint of                 *)
(* PVGISDayAverageRequest and only then runs the handler.                  *)
(***************************************************************************)
\* The Field constraints of PVGISDayAverageRequest
DayAverageRequestAccepts(request) ==
    /\ FLe(FInt(-90), request.latitude) /\ FLe(request.latitude, FInt(90))
    /\ FLe(FInt(-180), request.longitude) /\ FLe(request.longitude, FInt(180))
    /\ request.month >= 1 /\ request.month <= 12
    /\ request.day >= 1 /\ request.day <= 31
    /\ request.start_year >= 2005 /\ request.start_year <= 2020
    /\ request.end_year >= 2005 /\ request.end_year <= 2020
    /\ request.slope >= 0 /\ request.slope <= 90
    /\ request.azimuth >= -180 /\ request.azimuth <= 180

\* Except clauses that answer 500 whatever the exception is
AnswerInternalError(type, records) ==
    [ret |-> HttpResponse(500, NoValue), exc |-> "HTTPException",
     log |-> Append(records,
                    LogRec("ERROR", "Error in PVGIS day average", <<type>>))]

\* The except clauses of both handlers get_day_average: ValidationError
\* becomes 422, any other ValueError 400, RuntimeError 502, and every other
\* exception 500
DayAverageHandlerExcept(type, records) ==
    [ret |-> HttpResponse(IF type = "ValidationError" THEN 422
                          ELSE IF type = "ValueError" THEN 400
                          ELSE IF type = "RuntimeError" THEN 502
                          ELSE 500, NoValue),
     exc |-> "HTTPException",
     log |-> Append(records,
                    LogRec("ERROR", "Error in PVGIS day average", <<type>>))]

\* The body of a handler get_day_average, given the outcome o of its call
\* of calculate_day_average
DayAverageHandler(request, o) ==
    LET start == LogRec("INFO", "Calculating day average",
                        <<request.month, request.day, request.latitude,
                          request.longitude>>)
    IN  IF o.exc = "none"
        THEN Returned(HttpResponse(200, o.ret),
                      Append(<<start>> \o o.log,
                             LogRec("INFO", "Successfully calculated averages",
                                    <<Len(o.ret.years_analyzed),
                                      o.ret.peak_irradiance,
                                      o.ret.peak_hour>>)))
        ELSE DayAverageHandlerExcept(o.exc, <<start>> \o o.log)

\* The attributes of the class PVGISService
PVGISServiceAttributes ==
    {"BASE_URL_V52", "BASE_URL_V53", "TIMEOUT", "_make_request", "pvcalc",
     "shscalc", "mrcalc", "drcalc", "seriescalc", "tmy", "printhorizon",
     "fetch_hourly_data"}

\* PVGISService.calculate_day_average(request): the attribute is looked up
\* on the class, and called if the class has it; o is the outcome of the
\* day average of PVGISPlusService
PVGISServiceDayAverage(attributes, o) ==
    IF "calculate_day_average" \in attributes THEN o
    ELSE Raised("AttributeError", <<>>)

\* POST /pvgis-plus/day-average, with what the fetch gives
plus_get_day_average(request, data) ==
    IF ~DayAverageRequestAccepts(request) THEN RequestRejected
    ELSE DayAverageHandler(request, calculate_day_average(request, data))

\* POST /pvgis/day-average, with what the fetch would give
pvgis_get_day_average(request, data) ==
    IF ~DayAverageRequestAccepts(request) THEN RequestRejected
    ELSE DayAverageHandler(
             request,
             PVGISServiceDayAverage(PVGISServiceAttributes,
                                    calculate_day_average(request, data)))

\* The requests of the service, one past the pole and one that starts
\* before 2005
DayAverageBodies ==
    DayAverageRequests
        \cup {DayAverageRequest(FInt(95), Dec(27149, 3), 4, 15, 2005, 2006,
                                90, 0),
              DayAverageRequest(Dec(38447, 3), Dec(27149, 3), 4, 15, 1999,
                                2006, 90, 0)}

\* What the fetch gives: a failure, or a list of up to two records
DayAverageFetches ==
    {FetchFailed} \cup {Fetched(h) : h \in {l \in HourlyLists : Len(l) <= 2}}

\* A day-average endpoint is called with arguments a and ends with outcome o
DayAverageEndpointCall(endpoint, a, o) ==
    /\ op' = endpoint
    /\ args' = a
    /\ ret' = o.ret
    /\ exc' = o.exc
    /\ log' = o.log
    /\ UNCHANGED frames

PlusDayAverageEndpointCalls ==
    \E request \in DayAverageBodies, data \in DayAverageFetches :
        DayAverageEndpointCall("POST /pvgis-plus/day-average",
                               [request |-> request, data |-> data],
                               plus_get_day_average(request, data))

PvgisDayAverageEndpointCalls ==
    \E request \in DayAverageBodies, data \in DayAverageFetches :
        DayAverageEndpointCall("POST /pvgis/day-average",
                               [request |-> request, data |-> data],
                               pvgis_get_day_average(request, data))

NextDayAverageEndpoints ==
    PlusDayAverageEndpointCalls \/ PvgisDayAverageEndpointCalls

SpecDayAverageEndpoints == Init /\ [][NextDayAverageEndpoints]_vars

(***************************************************************************)
(* services.pvgis.PVGISService.  What requests.get does is an input of the *)
(* model: it raises an exception of some class, or returns a response with *)
(* a status code, a content type and a body.  A body is what               *)
(* response.json() gives: a dict, a list, or no JSON at all.               *)
(***************************************************************************)
\* The classes an exception of the given class is an instance of
Bases(class) ==
    CASE class = "ConnectTimeout" ->
             {"ConnectTimeout", "ConnectionError", "Timeout",
              "RequestException", "OSError", "Exception"}
      [] class = "ReadTimeout" ->
             {"ReadTimeout", "Timeout", "RequestException", "OSError",
              "Exception"}
      [] class = "ConnectionError" ->
             {"ConnectionError", "RequestException", "OSError", "Exception"}
      [] class = "TooManyRedirects" ->
             {"TooManyRedirects", "RequestException", "OSError", "Exception"}
      [] class = "HTTPError" ->
             {"HTTPError", "RequestException", "OSError", "Exception"}
      [] class = "JSONDecodeError" ->
             {"JSONDecodeError", "InvalidJSONError", "RequestException",
              "OSError", "ValueError", "Exception"}
      [] OTHER -> {class, "Exception"}

\* requests.get raised an exception of the class
GetRaised(class) ==
    [raised |-> class, status_code |-> 0, body |-> NoValue,
     content_type |-> ""]

\* requests.get returned a response
GetResponse(status_code, content_type, body) ==
    [raised |-> "none", status_code |-> status_code, body |-> body,
     content_type |-> content_type]

\* A str value, as the words it is made of
StrValue(words) == [str |-> words]

\* isinstance(value, str)
IsStr(value) == "str" \in DOMAIN value

\* word.lower()
Lower(word) ==
    CASE word = "Error" -> "error"
      [] word = "ERROR" -> "error"
      [] word = "Internal" -> "internal"
      [] OTHER -> word

\* "error" in message.lower()
MentionsError(message) ==
    \E i \in DOMAIN message.str : Lower(message.str[i]) = "error"

\* 'application/json' in content_type
MentionsJson(content_type) ==
    content_type \in {"application/json", "application/json; charset=utf-8"}

\* list(d.keys())
Keys(d) == [i \in DOMAIN d |-> d[i].key]

\* clean_params: the parameters that are not None, with outputformat and
\* browser set when they are missing
CleanParams(params) ==
    LET given == SelectSeq(params, LAMBDA e : e.value # NoValue)
        format == IF HasKey(given, "outputformat") THEN given
                  ELSE Append(given, Entry("outputformat", StrValue(<<"json">>)))
    IN  IF HasKey(format, "browser") THEN format
        ELSE Append(format, Entry("browser", StrValue(<<"0">>)))

\* f"{base_url}/{endpoint}"
Url(endpoint, use_v53) ==
    (IF use_v53 THEN "https://re.jrc.ec.europa.eu/api/v5_3/"
     ELSE "https://re.jrc.ec.europa.eu/api/v5_2/") \o endpoint

\* An exception raised with a message, from the exception that caused it
RaisedFrom(type, message, cause, records) ==
    [ret |-> [message |-> message, cause |-> cause], exc |-> type,
     log |-> records]

\* The records logged for the lists of data['outputs']: lines 71-73
OutputSizes(outputs) ==
    LET lists == SelectSeq(outputs, LAMBDA e : IsList(e.value))
    IN  [i \in DOMAIN lists |->
            LogRec("INFO", "records", <<lists[i].key, Len(lists[i].value.list)>>)]

\* A return that truncates the data whatever truncate_response is
ReturnTruncated(data, truncate_response, records) ==
    Returned(DictValue(truncate_large_arrays(data, NoValue, NoValue).ret),
             records \o truncate_large_arrays(data, NoValue, NoValue).log)

\* Lines 76-80: the data goes through truncate_large_arrays when
\* truncate_response is set, and is returned
MakeRequestReturn(data, truncate_response, records) ==
    IF truncate_response
    THEN Returned(DictValue(truncate_large_arrays(data, NoValue, NoValue).ret),
                  records \o truncate_large_arrays(data, NoValue, NoValue).log)
    ELSE Returned(DictValue(data), records)

\* Lines 68-80, for data that is a dict
MakeRequestSummary(endpoint, data, truncate_response, records) ==
    LET log1 == Append(records,
                       LogRec("INFO", "PVGIS response received successfully",
                              <<endpoint, Keys(data)>>))
    IN  IF ~HasKey(data, "outputs")
        THEN MakeRequestReturn(data, truncate_response, log1)
        ELSE IF ~IsDict(Item(data, "outputs"))
        THEN Raised("AttributeError", log1)
        ELSE MakeRequestReturn(
                 data, truncate_response,
                 Append(log1, LogRec("INFO", "Response outputs keys",
                                     <<Keys(Item(data, "outputs").dict)>>))
                     \o OutputSizes(Item(data, "outputs").dict))

\* Lines 61-80: data = response.json() and what follows
MakeRequestJson(endpoint, body, truncate_response, records) ==
    IF body.exc # "none" THEN Raised(body.exc, records)
    ELSE IF IsList(body.ret) THEN Raised("AttributeError", records)
    ELSE IF ~HasKey(body.ret.dict, "message")
    THEN MakeRequestSummary(endpoint, body.ret.dict, truncate_response, records)
    ELSE IF ~IsStr(Item(body.ret.dict, "message"))
    THEN Raised("AttributeError", records)
    ELSE IF MentionsError(Item(body.ret.dict, "message"))
    THEN Raised("ValueError", records)
    ELSE MakeRequestSummary(endpoint, body.ret.dict, truncate_response, records)

\* Lines 34-80: the statements of the try block
MakeRequestTry(endpoint, params, truncate_response, get) ==
    LET log1 == <<LogRec("INFO", "Requesting PVGIS",
                         <<endpoint, CleanParams(params)>>)>>
        log2 == Append(log1, LogRec("INFO", "PVGIS response status",
                                    <<get.status_code, get.content_type>>))
    IN  IF get.raised # "none" THEN Raised(get.raised, log1)
        ELSE IF get.status_code >= 400 /\ get.status_code < 600
        THEN Raised("HTTPError", log2)
        ELSE IF ~MentionsJson(get.content_type)
        THEN Raised("ValueError",
                    Append(log2, LogRec("ERROR",
                                        "PVGIS returned non-JSON response",
                                        <<get.content_type>>)))
        ELSE MakeRequestJson(endpoint, get.body, truncate_response, log2)

\* The except clauses in the order of a chain that tells a connection error
\* before a timeout
ConnectionBeforeTimeout(bases) ==
    IF "HTTPError" \in bases THEN "HTTPError"
    ELSE IF "RequestException" \in bases THEN "RequestException"
    ELSE IF "Timeout" \in bases THEN "Timeout"
    ELSE IF "ValueError" \in bases THEN "ValueError"
    ELSE "Exception"

\* The first except clause of lines 82-105 that matches an exception
ExceptClause(bases) ==
    IF "Timeout" \in bases THEN "Timeout"
    ELSE IF "HTTPError" \in bases THEN "HTTPError"
    ELSE IF "RequestException" \in bases THEN "RequestException"
    ELSE IF "ValueError" \in bases THEN "ValueError"
    ELSE "Exception"

\* Lines 91-96: the RuntimeError raised in the inner try, with the status
\* code and the body, is caught by the bare except under it, which raises
\* the one that leaves
HTTPErrorOther == "HTTP error from PVGIS API"

\* The message of the RuntimeError an except clause raises
ExceptMessage(clause, status_code) ==
    CASE clause = "Timeout" -> "PVGIS API request timed out"
      [] clause = "HTTPError" ->
             IF status_code = 429 THEN "Rate limit exceeded"
             ELSE IF status_code = 529 THEN "PVGIS server is overloaded"
             ELSE HTTPErrorOther
      [] clause = "RequestException" -> "Error connecting to PVGIS API"
      [] clause = "ValueError" -> "Error parsing PVGIS response"
      [] OTHER -> "Unexpected error in PVGIS request"

\* Lines 82-105, for the outcome o of the try block
MakeRequestExcept(o, get) ==
    IF o.exc = "none" THEN o
    ELSE RaisedFrom("RuntimeError",
                    ExceptMessage(ExceptClause(Bases(o.exc)), get.status_code),
                    o.exc, o.log)

\* PVGISService._make_request(endpoint, params, use_v53, truncate_response),
\* with what requests.get does
make_request(endpoint, params, truncate_response, get) ==
    MakeRequestExcept(MakeRequestTry(endpoint, params, truncate_response, get),
                      get)

\* The seven methods that return the response of an endpoint: the method,
\* the endpoint it requests and the message of its except clause
EndpointMethods ==
    <<[endpoint |-> "PVcalc", message |-> "Error in PVcalc", method |-> "pvcalc"],
      [endpoint |-> "SHScalc", message |-> "Error in SHScalc", method |-> "shscalc"],
      [endpoint |-> "MRcalc", message |-> "Error in MRcalc", method |-> "mrcalc"],
      [endpoint |-> "DRcalc", message |-> "Error in DRcalc", method |-> "drcalc"],
      [endpoint |-> "seriescalc", message |-> "Error in seriescalc",
       method |-> "seriescalc"],
      [endpoint |-> "tmy", message |-> "Error in TMY", method |-> "tmy"],
      [endpoint |-> "printhorizon", message |-> "Error in printhorizon",
       method |-> "printhorizon"]>>

\* except Exception as e: raise RuntimeError(f"...: {str(e)}") from e
MethodExcept(message, o) ==
    IF o.exc = "none" THEN o
    ELSE RaisedFrom("RuntimeError", message, o.ret, o.log)

\* pvcalc, shscalc, mrcalc, drcalc, seriescalc, tmy, printhorizon: params is
\* the dump of the request, truncate_response is left to its default
EndpointMethod(m, params, get) ==
    MethodExcept(m.message, make_request(m.endpoint, params, TRUE, get))

\* d.get(key, default)
DictGet(d, key, default) == IF HasKey(d, key) THEN Item(d, key) ELSE default

\* The params of fetch_hourly_data: lines 219-228
HourlyParams(request) ==
    <<Entry("lat", ScalarValue(request.latitude)),
      Entry("lon", ScalarValue(request.longitude)),
      Entry("startyear", ScalarValue(request.start_year)),
      Entry("endyear", ScalarValue(request.end_year)),
      Entry("angle", ScalarValue(request.slope)),
      Entry("aspect", ScalarValue(request.azimuth)),
      Entry("outputformat", StrValue(<<"json">>)),
      Entry("browser", StrValue(<<"0">>))>>

\* PVGISMetadata(...): lines 241-248, for dicts inputs, location, mounting
PVGISMetadata(request, inputs, location, mounting) ==
    [longitude |-> DictGet(location, "longitude", ScalarValue(request.longitude)),
     latitude |-> DictGet(location, "latitude", ScalarValue(request.latitude)),
     elevation |-> DictGet(location, "elevation", ScalarValue(0)),
     slope |-> DictGet(DictGet(mounting, "slope", DictValue(<<>>)).dict, "value",
                   ScalarValue(request.slope)),
     azimuth |-> DictGet(DictGet(mounting, "azimuth", DictValue(<<>>)).dict, "value",
                     ScalarValue(request.azimuth)),
     radiation_database |->
         DictGet(DictGet(inputs, "meteo_data", DictValue(<<>>)).dict, "source",
             StrValue(<<"Unknown">>))]

\* Lines 237-255, for the data _make_request returned
HourlyExtract(request, data, records) ==
    IF \/ ~IsDict(DictGet(data, "inputs", DictValue(<<>>)))
       \/ ~IsDict(DictGet(data, "outputs", DictValue(<<>>)))
    THEN Raised("AttributeError", records)
    ELSE IF \/ ~IsDict(DictGet(DictGet(data, "inputs", DictValue(<<>>)).dict,
                          "location", DictValue(<<>>)))
            \/ ~IsDict(DictGet(DictGet(data, "inputs", DictValue(<<>>)).dict,
                          "mounting_system", DictValue(<<>>)))
            \/ ~IsDict(DictGet(DictGet(data, "inputs", DictValue(<<>>)).dict,
                          "meteo_data", DictValue(<<>>)))
    THEN Raised("AttributeError", records)
    ELSE IF ~IsList(DictGet(DictGet(data, "outputs", DictValue(<<>>)).dict, "hourly",
                        ListValue(<<>>)))
    THEN Raised("TypeError", records)
    ELSE Returned(
             [hourly_data |->
                  DictGet(DictGet(data, "outputs", DictValue(<<>>)).dict, "hourly",
                      ListValue(<<>>)).list,
              metadata |->
                  PVGISMetadata(
                      request, DictGet(data, "inputs", DictValue(<<>>)).dict,
                      DictGet(DictGet(data, "inputs", DictValue(<<>>)).dict,
                          "location", DictValue(<<>>)).dict,
                      DictGet(DictGet(data, "inputs", DictValue(<<>>)).dict,
                          "mounting_system", DictValue(<<>>)).dict)],
             Append(records,
                    LogRec("INFO", "Successfully fetched hourly records",
                           <<Len(DictGet(DictGet(data, "outputs", DictValue(<<>>)).dict,
                                     "hourly", ListValue(<<>>)).list)>>)))

\* Lines 217-255: the statements of the try block, for the outcome o of
\* _make_request
FetchHourlyTry(request, o) ==
    LET start == LogRec("INFO", "Fetching PVGIS data",
                        <<request.latitude, request.longitude>>)
    IN  IF o.exc # "none"
        THEN [ret |-> o.ret, exc |-> o.exc, log |-> <<start>> \o o.log]
        ELSE HourlyExtract(request, o.ret.dict, <<start>> \o o.log)

\* PVGISService.fetch_hourly_data(request), with what requests.get does
fetch_hourly_data(request, get) ==
    LET o == FetchHourlyTry(request,
                            make_request("seriescalc", HourlyParams(request),
                                          FALSE, get))
    IN  IF o.exc = "none" THEN o
        ELSE RaisedFrom("RuntimeError", "Error fetching hourly data",
                        IF o.exc = "RuntimeError" THEN o.ret ELSE o.exc, o.log)

\* What response.json() gives for a body that is JSON
Json(value) == Returned(value, <<>>)

\* The hourly lists of a response: none, a few records, as many as
\* MAX_RECORDS_PER_ARRAY and one more
ResponseLists ==
    <<<<>>, <<11, 12, 13>>, SubSeq(LongList, 1, MAX_RECORDS_PER_ARRAY),
      LongList>>

\* The location a response reports
ResponseInputs ==
    DictValue(<<Entry("location",
                      DictValue(<<Entry("latitude", ScalarValue(38)),
                                  Entry("elevation", ScalarValue(120))>>))>>)

\* The bodies of a response
ResponseBodies ==
    <<Raised("JSONDecodeError", <<>>), Raised("ValueError", <<>>),
      Json(ListValue(<<1, 2>>)),
      Json(DictValue(<<Entry("message", StrValue(<<"Internal", "Error">>))>>)),
      Json(DictValue(<<Entry("message", ScalarValue(5))>>)),
      Json(DictValue(<<Entry("message", StrValue(<<"done">>)),
                       Entry("outputs", DictValue(<<>>))>>)),
      Json(DictValue(<<Entry("outputs", ListValue(<<1, 2>>))>>)),
      Json(DictValue(<<Entry("inputs", ListValue(<<1, 2>>))>>)),
      Json(DictValue(<<Entry("inputs", ResponseInputs)>>))>>
    \o [i \in DOMAIN ResponseLists |->
           Json(DictValue(<<Entry("inputs", ResponseInputs),
                            Entry("outputs",
                                  DictValue(<<Entry("hourly",
                                                    ListValue(ResponseLists[i])),
                                              Entry("n", ScalarValue(5))>>))>>))]
    \o [i \in DOMAIN ResponseLists |->
           Json(DictValue(<<Entry("outputs",
                                  DictValue(<<Entry("hourly",
                                                    ListValue(ResponseLists[i])),
                                              Entry("monthly",
                                                    ListValue(LongList))>>))>>))]

\* What requests.get does
GetOutcomes ==
    {GetRaised(class) :
         class \in {"ConnectTimeout", "ReadTimeout", "ConnectionError",
                    "TooManyRedirects", "MemoryError"}}
    \cup {GetResponse(status_code, "text/html", Json(ListValue(<<>>))) :
              status_code \in {400, 404, 429, 500, 529}}
    \cup {GetResponse(200, content_type, ResponseBodies[i]) :
              content_type \in {"application/json",
                                "application/json; charset=utf-8",
                                "text/html", ""},
              i \in DOMAIN ResponseBodies}

\* The params of a request: as a method dumps them, and with a None and no
\* output format
RequestParams ==
    <<<<Entry("lat", ScalarValue(38)), Entry("lon", ScalarValue(27)),
        Entry("outputformat", StrValue(<<"json">>))>>,
      <<Entry("lat", ScalarValue(38)), Entry("lon", ScalarValue(27)),
        Entry("raddatabase", NoValue)>>>>

\* The request of fetch_hourly_data
BasicRequest ==
    [longitude |-> 27, latitude |-> 38, start_year |-> 2005,
     end_year |-> 2006, slope |-> 90, azimuth |-> 0]

\* A method of PVGISService is called with arguments a and ends with
\* outcome o
PVGISCall(method, a, o) ==
    /\ op' = method
    /\ args' = a
    /\ ret' = o.ret
    /\ exc' = o.exc
    /\ log' = o.log
    /\ UNCHANGED frames

MakeRequestCalls ==
    \E p \in DOMAIN RequestParams, use_v53 \in BOOLEAN,
       truncate_response \in BOOLEAN, get \in GetOutcomes :
        PVGISCall("PVGISService._make_request",
                  [endpoint |-> "seriescalc", params |-> RequestParams[p],
                   use_v53 |-> use_v53,
                   truncate_response |-> truncate_response,
                   get |-> get, url |-> Url("seriescalc", use_v53)],
                  make_request("seriescalc", RequestParams[p],
                               truncate_response, get))

EndpointMethodCalls ==
    \E m \in DOMAIN EndpointMethods, get \in GetOutcomes :
        PVGISCall(EndpointMethods[m].method,
                  [endpoint |-> EndpointMethods[m].endpoint,
                   params |-> RequestParams[1], use_v53 |-> FALSE,
                   truncate_response |-> TRUE,
                   get |-> get,
                   url |-> Url(EndpointMethods[m].endpoint, FALSE)],
                  EndpointMethod(EndpointMethods[m], RequestParams[1], get))

FetchHourlyCalls ==
    \E get \in GetOutcomes :
        PVGISCall("PVGISService.fetch_hourly_data",
                  [endpoint |-> "seriescalc",
                   params |-> HourlyParams(BasicRequest), use_v53 |-> FALSE,
                   truncate_response |-> FALSE,
                   get |-> get, url |-> Url("seriescalc", FALSE)],
                  fetch_hourly_data(BasicRequest, get))

NextPVGIS == MakeRequestCalls \/ EndpointMethodCalls \/ FetchHourlyCalls

SpecPVGIS == Init /\ [][NextPVGIS]_vars

(***************************************************************************)
(* JulianDateCalculator.calculate, with its result as the float it is.     *)
(* The sum JD + time_fraction is a float of 53 bits: below 4194304 (2^22)  *)
(* days it is a multiple of 2^-31 day, from there on a multiple of 2^-30.  *)
(* The float kind "f64" is m half-days and e units of 2^-31 day past them, *)
(* with 0 <= e < 2^30.  The seconds of a half day are e * 2^24 / 675       *)
(* units, never half-way between two floats, so that the nearest float is  *)
(* the same whether the fraction is rounded before the sum or with it.     *)
(***************************************************************************)
\* s seconds in units of 2^-31 day: the whole units n and the 675ths r of
\* a unit left over
SecondsUnits(s) ==
    LET q0 == s \div 675
        r0 == s % 675
        q1 == (r0 * 4096) \div 675
        r1 == (r0 * 4096) % 675
        q2 == (r1 * 4096) \div 675
        r2 == (r1 * 4096) % 675
    IN  [n |-> q0 * 16777216 + q1 * 4096 + q2, r |-> r2]

\* The nearest multiple of 2^-31 day, in units of 2^-31 day
NearestFine(u) == IF 2 * u.r > 675 THEN u.n + 1 ELSE u.n

\* The nearest multiple of 2^-30 day, in units of 2^-31 day; half-way,
\* the one with the even mantissa
NearestCoarse(u) ==
    IF u.n % 2 = 0 THEN u.n
    ELSE IF u.r > 0 THEN u.n + 1
    ELSE IF ((u.n - 1) \div 2) % 2 = 0 THEN u.n - 1
    ELSE u.n + 1

\* The float nearest to u units past a number of half-days: fine says that
\* the sum is below 2^22 days
NearestFloat(fine, u) == IF fine THEN NearestFine(u) ELSE NearestCoarse(u)

\* result = JD + time_fraction, for the exact sum v of kind "jd"
FloatSum(v) ==
    IF v.k # "jd" THEN v
    ELSE IF NearestFloat(v.m < 2 ^ 23, SecondsUnits(v.e)) = 2 ^ 30
    THEN [k |-> "f64", m |-> v.m + 1, e |-> 0]
    ELSE [k |-> "f64", m |-> v.m,
          e |-> NearestFloat(v.m < 2 ^ 23, SecondsUnits(v.e))]

\* JulianDateCalculator.calculate with the float it returns
JulianDateFloat(month, day, year, hour, minute, second) ==
    Returned(FloatSum(JulianDate(month, day, year, hour, minute, second)),
             JulianDateCalculate(month, day, year, hour, minute, second).log)

\* Calendar days as month, day, year: the first Gregorian day, ends of
\* months and of years, the end of February in leap years, common years
\* and the century years 1900, 2000 and 2100, and the days around Julian
\* Date 4194304
CalendarDays ==
    {<<10, 15, 1582>>, <<12, 31, 1582>>, <<2, 28, 1900>>, <<3, 1, 1900>>,
     <<12, 31, 1999>>, <<2, 28, 2000>>, <<2, 29, 2000>>, <<1, 31, 2023>>,
     <<2, 28, 2023>>, <<2, 28, 2024>>, <<2, 29, 2024>>, <<4, 30, 2024>>,
     <<6, 21, 2025>>, <<12, 31, 2024>>, <<2, 28, 2100>>, <<3, 1, 2100>>,
     <<7, 6, 6771>>, <<7, 7, 6771>>, <<7, 8, 6771>>, <<12, 30, 9999>>}

\* Times of the day as hour, minute, second
TimesOfDay ==
    {<<0, 0, 0>>, <<0, 0, 1>>, <<0, 0, 4>>, <<6, 30, 15>>, <<11, 59, 59>>,
     <<12, 0, 0>>, <<17, 45, 30>>, <<23, 59, 58>>, <<23, 59, 59>>}

\* JulianDateCalculator.calculate is called with arguments a and returns
\* the float of outcome o
JulianFloatCall(a, o) ==
    /\ op' = "JulianDateCalculator.calculate: float"
    /\ args' = a
    /\ ret' = o.ret
    /\ exc' = o.exc
    /\ log' = o.log
    /\ UNCHANGED frames

JulianFloatCalls ==
    \E d \in CalendarDays, t \in TimesOfDay :
        JulianFloatCall([month |-> d[1], day |-> d[2], year |-> d[3],
                         hour |-> t[1], minute |-> t[2], second |-> t[3]],
                        JulianDateFloat(d[1], d[2], d[3], t[1], t[2], t[3]))

NextJulianFloat == JulianFloatCalls

SpecJulianFloat == Init /\ [][NextJulianFloat]_vars

(***************************************************************************)
(* Properties of BirdModel.calculate                                       *)
(***************************************************************************)
BirdRan == op = "BirdModel.calculate"

BirdReturned == BirdRan /\ exc = "none"

\* The call returned and its three irradiances are finite real numbers
BirdReturnedFinite ==
    BirdReturned /\ \A f \in IrradianceFields : IsFin(ret[f])

\* The largest magnitude among the three irradiances
MaxIrradiance ==
    LET d == FAbs(ret.direct_horizontal)
        f == FAbs(ret.diffuse_horizontal)
        t == FAbs(ret.total_horizontal)
        df == IF FLt(d, f) THEN f ELSE d
    IN  IF FLt(df, t) THEN t ELSE df

\* direct_horizontal + diffuse_horizontal, as a float addition gives it
DirectPlusDiffuse == FAdd(ret.direct_horizontal, ret.diffuse_horizontal)

BirdZenith ==
    LET recs == SelectSeq(log, LAMBDA r : r.msg = "Initial calculations")
    IN  IF Len(recs) = 0 THEN NoValue ELSE recs[1].vals[3]

\* The sun is at or below the threshold of the air-mass formula
SunBelowThreshold ==
    BirdRan /\ BirdZenith # NoValue /\ IsFin(BirdZenith)
            /\ FLe(Dec(93885, 3), BirdZenith)

\* Exception types that name a failure of the arithmetic or of a value's
\* domain
DomainErrors ==
    {"ValueError", "ZeroDivisionError", "OverflowError", "RuntimeError"}

\* C2 as stated: with a zenith angle of 93.885 degrees or more, calculate
\* returns irradiances that are zero or near zero (finite, within 1 W/m^2 of
\* it), or raises a domain error; it returns no NaN and nothing non-real
C2_ZeroOrDomainError ==
    SunBelowThreshold =>
        \/ exc \in DomainErrors
        \/ /\ exc = "none"
           /\ \A f \in IrradianceFields :
                  IsFin(ret[f]) /\ FLe(FAbs(ret[f]), FOne)

\* A call with the sun below the threshold that ended with the TypeError of
\* math.exp on a complex air mass
C2_NightTypeError == SunBelowThreshold /\ exc = "TypeError"

\* Exceptions the code raises on purpose, with a message of its own (the
\* utilities' except clauses); calculate itself raises none
DeliberateErrors == {"RuntimeError", "OverflowError"}

\* C4 as stated: a division by zero or domain violation inside calculate
\* reaches the caller as a computation error raised for it, and a returned
\* result holds no NaN, no infinity (and nothing else that is not a finite
\* real number)
C4_TypedErrorNoNaN ==
    BirdRan =>
        /\ exc \in DeliberateErrors \cup {"none"}
        /\ exc = "none" => \A f \in IrradianceFields : IsFin(ret[f])

\* A returned result with an infinite or NaN irradiance
C4_ReturnsNaN ==
    BirdReturned /\ \E f \in IrradianceFields : ret[f].k \in {"inf", "nan"}

(***************************************************************************)
(* Properties of the three utilities                                       *)
(***************************************************************************)
JulianRan == op = "JulianDateCalculator.calculate"

PressureRan == op = "PressureCalculator.station_pressure"

SolarRan == op = "SolarPositionCalculator.calculate"

\* The call's date is a Gregorian one the request schema admits: on or
\* after 1582-10-15, the year at most 9999
GregorianDate ==
    /\ JulianRan
    /\ args.year <= 9999
    /\ \/ args.year > 1582
       \/ args.year = 1582 /\ args.month > 10
       \/ args.year = 1582 /\ args.month = 10 /\ args.day >= 15

\* Twice floor(365.25*(Y+4716)) + floor(30.6001*(M+1)) + day + B - 1524.5,
\* in integer arithmetic, for the shifted year Y and month M of the claim
FormulaHalfDays(month, day, year) ==
    LET Y == IF month < 3 THEN year - 1 ELSE year
        M == IF month < 3 THEN month + 12 ELSE month
        A == Y \div 100
        B == 2 - A + A \div 4
    IN  2 * ((36525 * (Y + 4716)) \div 100 + (306001 * (M + 1)) \div 10000
             + day + B) - 3049

\* C3: for a Gregorian date on or after 1582-10-15, calculate returns
\* floor(365.25*(Y+4716)) + floor(30.6001*(M+1)) + day + B - 1524.5
\* + hour/24 + minute/1440 + second/86400 with (Y, M) the year and month
\* shifted when month < 3, A = floor(Y/100), B = 2 - A + floor(A/4); and
\* calculate(1, 1, 2000, 12, 0, 0) returns 2451545.0
C3_JulianDateFormula ==
    GregorianDate =>
        /\ exc = "none"
        /\ ret = JDValue(FormulaHalfDays(args.month, args.day, args.year),
                         3600 * args.hour + 60 * args.minute + args.second)
        /\ (args = [month |-> 1, day |-> 1, year |-> 2000,
                    hour |-> 12, minute |-> 0, second |-> 0]
               => ret = [k |-> "jd", m |-> 2 * 2451545, e |-> 0])

\* A February date with a time of day was converted
C3_ShiftedDateConverted ==
    /\ GregorianDate
    /\ args.month = 2 /\ args.year = 2024 /\ args.hour = 6
    /\ exc = "none" /\ ret.k = "jd" /\ ret.e # 0

UtilRan == JulianRan \/ PressureRan \/ SolarRan

\* The float arguments of the call are finite (a Julian Date included)
UtilArgsFinite ==
    /\ PressureRan => IsFin(args.p_sea_level) /\ IsFin(args.elevation_m)
    /\ SolarRan => args.julian_date.k \in {"fin", "jd"}

\* The floats the call returned
UtilResults ==
    IF SolarRan THEN {ret.zenith_angle, ret.R} ELSE {ret}

\* C5 as stated: in the three utilities a numeric overflow during the
\* computation reaches the caller as OverflowError and every other failure
\* as RuntimeError, no other exception type escapes; so a call on finite
\* arguments that raises nothing has overflowed nowhere and returns finite
\* values
C5_OverflowIsTyped ==
    UtilRan =>
        /\ exc \in {"none", "OverflowError", "RuntimeError"}
        /\ (exc = "none" /\ UtilArgsFinite)
               => \A v \in UtilResults : v.k \in {"fin", "jd"}

\* station_pressure returned an infinity for finite arguments
C5_SilentOverflow ==
    /\ PressureRan /\ UtilArgsFinite
    /\ exc = "none" /\ ret.k = "inf"

\* The call's arguments are valid: the Julian Date of a date, the latitude
\* in [-90, 90], the longitude in [-180, 180]
SolarValid ==
    /\ SolarRan
    /\ args.julian_date.k = "jd"
    /\ FLe(FInt(-90), args.latitude) /\ FLe(args.latitude, FInt(90))
    /\ FLe(FInt(-180), args.longitude) /\ FLe(args.longitude, FInt(180))

\* C6 as stated: for every Julian Date and every latitude in [-90, 90] and
\* longitude in [-180, 180], calculate completes without a domain failure
\* (the argument of the elevation's asin being clamped to [-1, 1])
C6_NoDomainFailure == SolarValid => exc = "none"

\* A call on valid arguments that ended with the RuntimeError made of
\* asin's "math domain error"
C6_DomainFailure == SolarValid /\ exc = "RuntimeError"

\* C7: station_pressure(p, 0) returns exactly p, for every sea-level
\* pressure p
C7_SeaLevelIdentity ==
    (PressureRan /\ args.elevation_m = FZero)
        => exc = "none" /\ ret = args.p_sea_level

\* A call at elevation 0 returned its non-zero sea-level pressure
C7_SeaLevelCall ==
    /\ PressureRan /\ args.elevation_m = FZero
    /\ ~IsZero(args.p_sea_level)
    /\ exc = "none" /\ ret = args.p_sea_level

\* p * exp(-0.119*H - 0.0013*H^2) with H = elevation/1000
PressureFormula(p, elevation) ==
    FMul(p, FExp(FSub(FMul(Dec(-119, 3), FDiv(elevation, FInt(1000))),
                      FMul(FMul(Dec(13, 4), FDiv(elevation, FInt(1000))),
                           FDiv(elevation, FInt(1000))))))

\* A positive sea-level pressure and an elevation below sea level
BelowSeaLevel ==
    PressureRan /\ IsFin(args.p_sea_level) /\ IsPos(args.p_sea_level)
                /\ IsNeg(args.elevation_m)

\* C8 as stated: for every positive p and every negative elevation the
\* result is strictly greater than p, and is p * exp(-0.119*H - 0.0013*H^2)
C8_AlwaysGreater ==
    BelowSeaLevel =>
        /\ exc = "none"
        /\ ret = PressureFormula(args.p_sea_level, args.elevation_m)
        /\ FLt(args.p_sea_level, ret)

\* C8, amended: the result is p * exp(-0.119*H - 0.0013*H^2) with
\* H = elevation/1000 for every elevation, negative or not, with no branch;
\* for a positive p it is strictly greater than p when the elevation is
\* between -91500 m and -0.001 m, and strictly less than p when the
\* elevation is -91539 m or lower, where the quadratic term outweighs the
\* linear one
C8_GreaterDownTo91km ==
    PressureRan =>
        /\ exc = "none"
        /\ ret = PressureFormula(args.p_sea_level, args.elevation_m)
        /\ (BelowSeaLevel /\ FLe(FInt(-91500), args.elevation_m)
                          /\ FLe(args.elevation_m, Dec(-1, 3)))
               => FLt(args.p_sea_level, ret)
        /\ (BelowSeaLevel /\ FLe(args.elevation_m, FInt(-91539)))
               => FLt(ret, args.p_sea_level)

\* A call 9000 m below sea level returned more than its sea-level pressure
C8_DeepCall ==
    /\ BelowSeaLevel /\ args.elevation_m = FInt(-9000)
    /\ exc = "none" /\ FLt(args.p_sea_level, ret)

\* C9: for valid arguments on which calculate returns, the zenith angle is
\* in [0, 180] degrees and the Earth-Sun distance in [0.97, 1.04] AU
C9_ZenithAndDistanceRanges ==
    (SolarValid /\ exc = "none") =>
        /\ FLe(FZero, ret.zenith_angle) /\ FLe(ret.zenith_angle, FInt(180))
        /\ FLe(Dec(97, 2), ret.R) /\ FLe(ret.R, Dec(104, 2))

\* A call on valid arguments returned with the sun below the horizon
C9_NightPosition ==
    /\ SolarValid /\ exc = "none"
    /\ FLt(FInt(90), ret.zenith_angle)

(***************************************************************************)
(* Properties of PVGISPlusService.calculate_day_average                    *)
(***************************************************************************)
DayAverageRan == op = "PVGISPlusService.calculate_day_average"

DayAverageReturned == DayAverageRan /\ exc = "none"

\* C10: whatever records were fetched, a response's hourly_averages has
\* exactly 24 entries, and the entry at index i has hour = i, for i = 0..23
C10_TwentyFourHours ==
    DayAverageReturned =>
        /\ Len(ret.hourly_averages) = 24
        /\ \A i \in 0 .. 23 : ret.hourly_averages[i + 1].hour = i

\* A response made of two records of one hour, of a record of another
\* hour, and of no record for the remaining hours
C10_SparseDay ==
    /\ DayAverageReturned
    /\ \E i \in 1 .. Len(ret.hourly_averages) :
           ret.hourly_averages[i].sample_count = 2
    /\ \E i \in 1 .. Len(ret.hourly_averages) :
           ret.hourly_averages[i].sample_count = 1
    /\ \E i \in 1 .. Len(ret.hourly_averages) :
           ret.hourly_averages[i].sample_count = 0

\* The timestamp of the i-th record of the fetched list ("" if it has none)
FetchedStamp(i) ==
    IF "time" \in DOMAIN args.data.hourly[i] THEN args.data.hourly[i].time
    ELSE <<>>

\* The records of the fetched list that belong to the hour of the requested
\* day: characters 5 to 8 of the timestamp (MMDD) are the requested month
\* and day, and characters 10 to 11 (HH) read as the hour; the year, in
\* characters 1 to 4, plays no part
Contributing(hour) ==
    {i \in 1 .. Len(args.data.hourly) :
        /\ Len(FetchedStamp(i)) >= 8
        /\ SubSeq(FetchedStamp(i), 5, 8)
               = TwoDigits(args.request.month) \o TwoDigits(args.request.day)
        /\ LET HH == ParseInt(Slice(FetchedStamp(i), 9, 11))
           IN  HH.k = "int" /\ HH.m = hour}

NumericFields == {"G_i", "H_sun", "T2m", "WS10m", "Int"}

\* C11: in every response, an hour for which no record matched has
\* sample_count = 0, and every hour with sample_count = 0 has G_i, H_sun,
\* T2m, WS10m and Int all equal to 0
C11_EmptyHoursAreZero ==
    DayAverageReturned =>
        \A h \in 0 .. 23 :
            LET entry == ret.hourly_averages[h + 1]
            IN  /\ Contributing(h) = {} => entry.sample_count = 0
                /\ entry.sample_count = 0 =>
                       \A f \in NumericFields : entry[f] = FZero

\* A response in which no hour has a record: the only record of the
\* requested day carries hour 24
C11_AllHoursEmpty ==
    /\ DayAverageReturned
    /\ Len(args.data.hourly) > 0
    /\ \A h \in 0 .. 23 : Contributing(h) = {}

\* max(h.G_i for h in hourly_averages)
MaxHourlyG_i ==
    LET G == {ret.hourly_averages[i].G_i :
                 i \in 1 .. Len(ret.hourly_averages)}
    IN  CHOOSE g \in G : \A other \in G : FLe(other, g)

\* C12 as stated: for any record set, peak_irradiance is the maximum of G_i
\* over the 24 entries and peak_hour is the hour of an entry that attains it
C12_PeakIsMaximum ==
    DayAverageReturned =>
        /\ FEq(ret.peak_irradiance, MaxHourlyG_i)
        /\ ret.peak_hour \in 0 .. 23
        /\ FEq(ret.hourly_averages[ret.peak_hour + 1].G_i, MaxHourlyG_i)

\* A response whose hour 0 has a negative mean and whose other hours have
\* none above zero: the peak is left at its initial hour 0, whose entry is
\* below the maximum
C12_PeakLeftAtStart ==
    /\ DayAverageReturned
    /\ ret.peak_hour = 0
    /\ IsNeg(ret.hourly_averages[1].G_i)
    /\ FEq(ret.peak_irradiance, FZero)
    /\ FEq(MaxHourlyG_i, FZero)

\* sum(h.G_i for h in hourly_averages): the additions from the left, from 0
RECURSIVE PlainSumG_i(_, _, _)
PlainSumG_i(hourly_averages, i, acc) ==
    IF i > Len(hourly_averages) THEN acc
    ELSE PlainSumG_i(hourly_averages, i + 1,
                     FAdd(acc, hourly_averages[i].G_i))

\* C13: for any record set, daily_total_energy of a response is the plain
\* sum of G_i over all 24 hourly_averages entries
C13_DailyTotalIsPlainSum ==
    DayAverageReturned =>
        /\ Len(ret.hourly_averages) = 24
        /\ ret.daily_total_energy = PlainSumG_i(ret.hourly_averages, 1, FZero)

\* A response with two hours whose means are not zero, so that the total is
\* neither of them
C13_TwoHoursSummed ==
    /\ DayAverageReturned
    /\ \E i, j \in 1 .. Len(ret.hourly_averages) :
           /\ i < j
           /\ ~IsZero(ret.hourly_averages[i].G_i)
           /\ ~IsZero(ret.hourly_averages[j].G_i)
           /\ ret.daily_total_energy # ret.hourly_averages[i].G_i
           /\ ret.daily_total_energy # ret.hourly_averages[j].G_i

\* The sum of a field over the records of the fetched list from the i-th on
\* that belong to the hour, added in list order to acc; a record without the
\* field counts as 0
RECURSIVE ContributedSum(_, _, _, _)
ContributedSum(hour, field, i, acc) ==
    IF i > Len(args.data.hourly) THEN acc
    ELSE ContributedSum(hour, field, i + 1,
             IF i \in Contributing(hour)
             THEN FAdd(acc, IF field \in DOMAIN args.data.hourly[i]
                            THEN args.data.hourly[i][field] ELSE FZero)
             ELSE acc)

StampYear(i) == ParseInt(SubSeq(FetchedStamp(i), 1, 4)).m

RequestedYears == args.request.start_year .. args.request.end_year

\* C19: whatever records were fetched, only records whose year lies in
\* [start_year, end_year] contribute to the hourly averages, and every year
\* listed in years_analyzed lies in [start_year, end_year]
C19_OnlyRequestedYears ==
    DayAverageReturned =>
        /\ \A h \in 0 .. 23 : \A i \in Contributing(h) :
               StampYear(i) \in RequestedYears
        /\ \A k \in DOMAIN ret.years_analyzed :
               ret.years_analyzed[k] \in RequestedYears

\* A response whose only contributing record is of a year before start_year:
\* the year is listed in years_analyzed and the record's value is the
\* average of its hour
C19_YearOutsideRangeAveraged ==
    /\ DayAverageReturned
    /\ \E h \in 0 .. 23 : \E i \in Contributing(h) :
           /\ StampYear(i) < args.request.start_year
           /\ ret.years_analyzed = <<StampYear(i)>>
           /\ ret.hourly_averages[h + 1].sample_count = 1
           /\ ret.hourly_averages[h + 1].G_i = args.data.hourly[i].G_i

(***************************************************************************)
(* Properties of POST /calculator/bird_model                               *)
(***************************************************************************)
BirdEndpointRan == op = "POST /calculator/bird_model"

\* BirdModel.calculate was invoked: its first statement logged the start
BirdCoreInvoked ==
    /\ BirdEndpointRan
    /\ \E i \in 1 .. Len(log) :
           log[i].level = "INFO"
               /\ log[i].msg = "Starting Bird model calculation"

IsLeapYear(y) == (y % 4 = 0 /\ y % 100 # 0) \/ y % 400 = 0

DaysInMonth(m, y) ==
    IF m = 2 THEN (IF IsLeapYear(y) THEN 29 ELSE 28)
    ELSE IF m \in {4, 6, 9, 11} THEN 30 ELSE 31

\* The date and time fields of the request name a day of the calendar and a
\* time of day
CalendarValid(inputs) ==
    /\ inputs.month \in 1 .. 12
    /\ inputs.day \in 1 .. DaysInMonth(inputs.month, inputs.year)
    /\ inputs.hour \in 0 .. 23
    /\ inputs.minute \in 0 .. 59
    /\ inputs.second \in 0 .. 59

\* The ranges C15 names
InClaimedRanges(inputs) ==
    /\ FLe(FInt(-90), inputs.latitude) /\ FLe(inputs.latitude, FInt(90))
    /\ FLe(FInt(-180), inputs.longitude) /\ FLe(inputs.longitude, FInt(180))
    /\ FLe(FZero, inputs.albedo) /\ FLe(inputs.albedo, FOne)
    /\ inputs.year \in 1900 .. 2100
    /\ CalendarValid(inputs)

\* C15 as stated: every invocation of BirdModel.calculate reached through
\* the endpoint has latitude in [-90, 90], longitude in [-180, 180], albedo
\* in [0, 1], the year in the supported window and a calendar-valid date and
\* time; a request violating any of these never reaches the core
C15_CoreSeesValidatedRanges == BirdCoreInvoked => InClaimedRanges(args)

\* The core was invoked, and answered 200, for a request whose latitude or
\* longitude is out of range and whose date is no day of the calendar
C15_UnvalidatedRequestComputed ==
    /\ BirdCoreInvoked
    /\ ret.status_code = 200
    /\ ~CalendarValid(args)
    /\ \/ ~FLe(args.latitude, FInt(90))
       \/ ~FLe(args.longitude, FInt(180))

(***************************************************************************)
(* Properties of the endpoints of the utilities                            *)
(***************************************************************************)
UtilsEndpointRan ==
    op \in {"POST /utils/julian-day", "POST /utils/solar-position",
            "POST /utils/solar-position/batch"}

\* The log records JulianDateCalculator.calculate wrote on entry, one for
\* each invocation, with the arguments year, month, day, hour, minute, second
JulianInvocations ==
    SelectSeq(log, LAMBDA r : r.level = "DEBUG"
                                  /\ r.msg = "Calculating Julian Date")

\* The date year-month-day is 1582-10-15 or later
Gregorian(year, month, day) ==
    \/ year > 1582
    \/ year = 1582 /\ month > 10
    \/ year = 1582 /\ month = 10 /\ day >= 15

\* C16 as stated: no date earlier than 1582-10-15 is ever converted: a
\* request to one of the three endpoints whose date precedes it is rejected
\* before JulianDateCalculator.calculate is called
C16_NoDateBeforeGregorian ==
    UtilsEndpointRan =>
        \A i \in 1 .. Len(JulianInvocations) :
            Gregorian(JulianInvocations[i].vals[1],
                      JulianInvocations[i].vals[2],
                      JulianInvocations[i].vals[3])

\* POST /utils/julian-day answered 200 with a Julian Date for a day of 1582
\* before 15 October
C16_Early1582Converted ==
    /\ op = "POST /utils/julian-day"
    /\ ret.status_code = 200
    /\ args.year = 1582
    /\ ~Gregorian(args.year, args.month, args.day)
    /\ Len(JulianInvocations) = 1
    /\ ret.body.julian_date.k = "jd"

SolarPositionEndpointRan == op = "POST /utils/solar-position"

\* C21: when a POST /utils/solar-position request provides julian_date, the
\* date and time fields are ignored whatever they are:
\* JulianDateCalculator.calculate is not invoked, the solar position is
\* computed from the provided value, and the response's julian_date is the
\* provided value
C21_ProvidedJulianDateUsed ==
    (/\ SolarPositionEndpointRan
     /\ args.julian_date # NoValue
     /\ PlaceFieldsAccepted(args)) =>
        /\ JulianInvocations = <<>>
        /\ ret.status_code = 200
        /\ ret.body.julian_date = args.julian_date
        /\ ret.body.zenith_angle
               = SolarPositionCalculate(args.julian_date, args.longitude,
                                        args.latitude).ret.zenith_angle

\* A request that provides julian_date and a place within bounds is answered
\* 422 because of its year, a field the handler would not read
C21_RejectedOnUnusedDate ==
    /\ SolarPositionEndpointRan
    /\ args.julian_date # NoValue
    /\ PlaceFieldsAccepted(args)
    /\ TimeFieldsAccepted(args)
    /\ args.year < 1582
    /\ ret.status_code = 422
    /\ ret.body = NoValue

(***************************************************************************)
(* Properties of the four components together                              *)
(***************************************************************************)
CoreRan == JulianRan \/ PressureRan \/ SolarRan \/ BirdRan

\* The records of the log with the given message
LogRecords(msg) == SelectSeq(log, LAMBDA r : r.msg = msg)

\* The records of the log of the given level
LogLevel(level) == SelectSeq(log, LAMBDA r : r.level = level)

UtilityLogged ==
    /\ Len(log) = 2
    /\ log[1].level = "DEBUG"
    /\ exc = "none" => log[2].level = "DEBUG"
    /\ exc # "none" => log[2].level = "ERROR" /\ ret = NoValue

AloneOutcomes ==
    <<BirdModelCalculate(ConcurrentInputs[1]),
      BirdModelCalculate(ConcurrentInputs[2]),
      BirdModelCalculate(ConcurrentInputs[3])>>

Alone(inputs) ==
    AloneOutcomes[CHOOSE i \in DOMAIN ConcurrentInputs :
                      ConcurrentInputs[i] = inputs]

\* The records thread t wrote, in the order it wrote them
WrittenBy(t) ==
    LET own == SelectSeq(log, LAMBDA w : w.thread = t)
    IN  [i \in 1 .. Len(own) |-> own[i].record]

\* C18: whatever the interleaving of the steps of the invocations, an
\* invocation that has ended returned or raised what BirdModel.calculate
\* returns or raises alone on the same inputs, and wrote the same records
C18_ConcurrentAsAlone ==
    \A t \in Invocations :
        frames[t].pc = "done" =>
            /\ frames[t].ret = Alone(frames[t].inputs).ret
            /\ frames[t].exc = Alone(frames[t].inputs).exc
            /\ WrittenBy(t) = Alone(frames[t].inputs).log

\* Two invocations on different inputs have ended, and the steps of each ran
\* between the steps of the other: each wrote a record both before and after
\* a record of the other
C18_InterleavedBothDone ==
    /\ frames[1].pc = "done" /\ frames[2].pc = "done"
    /\ frames[1].inputs # frames[2].inputs
    /\ frames[1].exc = "none" /\ frames[2].exc = "none"
    /\ \E i, j, k, l \in DOMAIN log :
           /\ i < j /\ j < k /\ k < l
           /\ log[i].thread = 1 /\ log[j].thread = 2
           /\ log[k].thread = 1 /\ log[l].thread = 2

(***************************************************************************)
(* Properties of truncate_large_arrays                                     *)
(***************************************************************************)
TruncateRan == op = "truncate_large_arrays"

\* The arrays the call checks: <<top_key, key>> for every list directly
\* under a checked top-level key of the input
CheckedArrays ==
    LET keys == KeysOrDefault(args.keys_to_check)
        checked == {keys[k] : k \in {k \in DOMAIN keys :
                                        /\ HasKey(args.data, keys[k])
                                        /\ IsDict(Item(args.data, keys[k]))}}
    IN  UNION {{<<top_key, Item(args.data, top_key).dict[i].key>> :
                    i \in {i \in DOMAIN Item(args.data, top_key).dict :
                              IsList(Item(args.data, top_key).dict[i].value)}} :
                  top_key \in checked}

InputList(tk) == Item(Item(args.data, tk[1]).dict, tk[2]).list

ResultList(tk) == Item(Item(ret, tk[1]).dict, tk[2]).list

Shortened(tk) == Len(ResultList(tk)) < Len(InputList(tk))

WarningAdded ==
    /\ HasKey(ret, "_truncation_warning")
    /\ HasKey(args.data, "_truncation_warning") =>
           Item(ret, "_truncation_warning")
               # Item(args.data, "_truncation_warning")

\* C20: every list directly under a checked top-level key consists in the
\* result of the first min(n, max_records) elements of the input list of
\* length n; '_truncation_warning' is added exactly when at least one list
\* was shortened, and records for each shortened list original_count = n,
\* returned_count = max_records and truncated_count = n - max_records
C20_FirstMaxRecordsKept ==
    TruncateRan =>
        LET max_records == MaxRecordsOrDefault(args.max_records)
        IN  /\ \A tk \in CheckedArrays :
                   LET n == Len(InputList(tk))
                   IN  ResultList(tk)
                           = SubSeq(InputList(tk), 1,
                                    IF n < max_records THEN n
                                    ELSE max_records)
            /\ WarningAdded <=> \E tk \in CheckedArrays : Shortened(tk)
            /\ \A tk \in CheckedArrays :
                   Shortened(tk) =>
                       LET info == Item(Item(ret, "_truncation_warning")
                                            .truncated_arrays,
                                        ArrayName(tk[1], tk[2]))
                       IN  /\ info.original_count = Len(InputList(tk))
                           /\ info.returned_count = max_records
                           /\ info.truncated_count
                                  = Len(InputList(tk)) - max_records

\* A call with max_records = -1 on a list of three records: the result keeps
\* two of them and records returned_count = -1 and truncated_count = 4
C20_NegativeMaxRecords ==
    /\ TruncateRan
    /\ args.max_records = IntValue(-1)
    /\ \E tk \in CheckedArrays :
           /\ Len(InputList(tk)) = 3
           /\ Len(ResultList(tk)) = 2
           /\ LET info == Item(Item(ret, "_truncation_warning")
                                   .truncated_arrays,
                               ArrayName(tk[1], tk[2]))
              IN  /\ info.returned_count = -1
                  /\ info.truncated_count = 4

(***************************************************************************)
(* Properties of truncate_large_arrays on objects                          *)
(***************************************************************************)
TruncateObjectsRan == op = "truncate_large_arrays(data)"

\* C25: truncate_large_arrays leaves its argument unchanged: after the call
\* the input dict has the same keys (no '_truncation_warning' added), its
\* nested dicts under the checked keys have the same entries, and every
\* input list has its length and elements, whether or not truncation
\* happened; what is returned is what the function computes from the
\* argument
C25_ArgumentUnchanged ==
    TruncateObjectsRan =>
        /\ \A at \in DOMAIN args.heap : ret.heap[at] = args.heap[at]
        /\ Keys(ret.heap[args.data].dict) = Keys(args.heap[args.data].dict)
        /\ ~HasKey(ret.heap[args.data].dict, "_truncation_warning")
        /\ Deref(ret.heap, Ref(args.data)) = Deref(args.heap, Ref(args.data))
        /\ ret.result \notin DOMAIN args.heap
        /\ Deref(ret.heap, Ref(ret.result)).dict
               = truncate_large_arrays(Deref(args.heap, Ref(args.data)).dict,
                                       args.max_records,
                                       args.keys_to_check).ret

\* A call that truncated the hourly list under 'outputs' that 'inputs'
\* holds as well: the result has the warning and the shorter list, the
\* argument still has the list of all its records
C25_TruncatedAndArgumentWhole ==
    /\ TruncateObjectsRan
    /\ args.max_records = NoValue
    /\ HasKey(ret.heap[ret.result].dict, "_truncation_warning")
    /\ HasKey(args.heap[args.data].dict, "inputs")
    /\ Len(Item(Item(Deref(ret.heap, Ref(ret.result)).dict, "outputs").dict,
                "hourly").list) = MAX_RECORDS_PER_ARRAY
    /\ Len(Item(Item(Deref(ret.heap, Ref(args.data)).dict, "outputs").dict,
                "hourly").list) = MAX_RECORDS_PER_ARRAY + 1
    /\ Len(Item(Item(Deref(ret.heap, Ref(args.data)).dict, "inputs").dict,
                "hourly").list) = MAX_RECORDS_PER_ARRAY + 1

(***************************************************************************)
(* Properties of the Julian Date over the calendar                         *)
(***************************************************************************)
JulianFloatRan == op = "JulianDateCalculator.calculate: float"

\* The calendar day after the day of the call, as month, day, year
NextDay ==
    IF args.day < DaysInMonth(args.month, args.year)
    THEN <<args.month, args.day + 1, args.year>>
    ELSE IF args.month < 12 THEN <<args.month + 1, 1, args.year>>
    ELSE <<1, 1, args.year + 1>>

\* The result for the day after the day of the call, at the time of the call
NextDayResult ==
    JulianDateFloat(NextDay[1], NextDay[2], NextDay[3], args.hour,
                    args.minute, args.second).ret

\* The result for the second after the time of the call
NextSecondResult ==
    IF TimeSeconds(args.hour, args.minute, args.second) < 86399
    THEN JulianDateFloat(args.month, args.day, args.year,
                         (TimeSeconds(args.hour, args.minute, args.second) + 1)
                             \div 3600,
                         ((TimeSeconds(args.hour, args.minute, args.second) + 1)
                             \div 60) % 60,
                         (TimeSeconds(args.hour, args.minute, args.second) + 1)
                             % 60).ret
    ELSE JulianDateFloat(NextDay[1], NextDay[2], NextDay[3], 0, 0, 0).ret

\* x < y for two floats of kind "f64"
FloatBefore(x, y) == x.m < y.m \/ (x.m = y.m /\ x.e < y.e)

\* y - x = 1 for two floats of kind "f64"
OneDayApart(x, y) == y.m = x.m + 2 /\ y.e = x.e

\* Both floats are below 2^22 days, or neither is
SameSpacing(x, y) == (x.m < 2 ^ 23) <=> (y.m < 2 ^ 23)

InputsJulianDate ==
    JulianDateCalculate(args.month, args.day, args.year, args.hour,
                        args.minute, args.second).ret

\* The station pressure at the elevation of the inputs of the call
InputsStationPressure ==
    station_pressure(args.station_pressure, args.elevation).ret

\* The values AM and AMp of the record logged for the air mass
LoggedAirMass == LogRecords("Air mass")[1].vals

\* C24: BirdModel.calculate computes the Julian Date first and passes it to
\* SolarPositionCalculator.calculate; the returned julian_date, zenith_angle
\* and earth_sun_distance are the values the utilities returned, the
\* returned station_pressure is the elevation-corrected pressure and not
\* the sea-level input, and AMp is AM * p / 1013 of the corrected pressure
C24_UtilityValuesHandedOn ==
    (BirdRan /\ exc = "none") =>
        /\ ret.julian_date = InputsJulianDate
        /\ ret.zenith_angle
               = SolarPositionCalculate(InputsJulianDate, args.longitude,
                                        args.latitude).ret.zenith_angle
        /\ ret.earth_sun_distance
               = SolarPositionCalculate(InputsJulianDate, args.longitude,
                                        args.latitude).ret.R
        /\ ret.station_pressure = InputsStationPressure
        /\ LoggedAirMass[1] = ret.air_mass
        /\ LoggedAirMass[2]
               = FDiv(FMul(ret.air_mass, InputsStationPressure), FInt(1013))

\* calculate returned for a place above sea level: the station pressure it
\* returned is below the sea-level input, and AMp is not the one of the
\* sea-level input
C24_CorrectedPressureUsed ==
    /\ BirdRan
    /\ exc = "none"
    /\ FLt(FZero, args.elevation)
    /\ FLt(ret.station_pressure, args.station_pressure)
    /\ LoggedAirMass[2]
           # FDiv(FMul(ret.air_mass, args.station_pressure), FInt(1013))

(***************************************************************************)
(* Properties of the day-average endpoints                                 *)
(***************************************************************************)
PlusDayAverageRan == op = "POST /pvgis-plus/day-average"

PvgisDayAverageRan == op = "POST /pvgis/day-average"

\* What POST /pvgis-plus/day-average answers to the arguments of the call
PlusAnswer == plus_get_day_average(args.request, args.data).ret

\* C22: POST /pvgis/day-average, given a valid request for which the fetch
\* succeeds and records of the day exist, answers with the hourly averages,
\* the same result POST /pvgis-plus/day-average gives for the request
C22_SameAsPlusEndpoint ==
    (/\ PvgisDayAverageRan
     /\ DayAverageRequestAccepts(args.request)
     /\ PlusAnswer.status_code = 200) =>
        /\ ret.status_code = 200
        /\ ret.body = PlusAnswer.body

\* POST /pvgis/day-average answers 500 to a request that
\* POST /pvgis-plus/day-average answers with averages: the handler's call
\* raised AttributeError
C22_InternalErrorInsteadOfAverages ==
    /\ PvgisDayAverageRan
    /\ DayAverageRequestAccepts(args.request)
    /\ PlusAnswer.status_code = 200
    /\ PlusAnswer.body.hourly_averages[11].sample_count = 2
    /\ ret.status_code = 500
    /\ ret.body = NoValue
    /\ log[Len(log)].vals = <<"AttributeError">>

(***************************************************************************)
(* Properties of PVGISService                                              *)
(***************************************************************************)
MakeRequestRan == op = "PVGISService._make_request"

\* The call left with a RuntimeError of the given message
RuntimeErrorOf(message) == exc = "RuntimeError" /\ ret.message = message

\* requests.get returned a response of status 200 that says it is JSON
JsonResponse ==
    /\ args.get.raised = "none"
    /\ args.get.status_code = 200
    /\ MentionsJson(args.get.content_type)

\* C23: every failure inside PVGISService._make_request (timeout, HTTP error
\* status, connection error, non-JSON content type, an error message in the
\* body, or anything unexpected) reaches the caller as a RuntimeError and as
\* no other exception; a timeout is reported as a timeout and not as a
\* connection error, HTTP 429 as rate limit exceeded, HTTP 529 as server
\* overloaded
C23_FailuresAreRuntimeErrors ==
    MakeRequestRan =>
        /\ exc \in {"none", "RuntimeError"}
        /\ "Timeout" \in Bases(args.get.raised)
               => RuntimeErrorOf("PVGIS API request timed out")
        /\ args.get.raised \in {"ConnectionError", "TooManyRedirects"}
               => RuntimeErrorOf("Error connecting to PVGIS API")
        /\ args.get.raised = "MemoryError"
               => RuntimeErrorOf("Unexpected error in PVGIS request")
        /\ args.get.status_code = 429 => RuntimeErrorOf("Rate limit exceeded")
        /\ args.get.status_code = 529
               => RuntimeErrorOf("PVGIS server is overloaded")
        /\ args.get.status_code \in {400, 404, 500}
               => RuntimeErrorOf("HTTP error from PVGIS API")
        /\ (/\ args.get.raised = "none"
            /\ args.get.status_code = 200
            /\ ~MentionsJson(args.get.content_type))
               => RuntimeErrorOf("Error parsing PVGIS response")
        /\ (JsonResponse /\ args.get.body.exc # "none") => exc = "RuntimeError"
        /\ (/\ JsonResponse
            /\ args.get.body.exc = "none"
            /\ IsDict(args.get.body.ret)
            /\ HasKey(args.get.body.ret.dict, "message")
            /\ IsStr(Item(args.get.body.ret.dict, "message"))
            /\ MentionsError(Item(args.get.body.ret.dict, "message")))
               => RuntimeErrorOf("Error parsing PVGIS response")
        /\ (/\ JsonResponse
            /\ args.get.body.exc = "none"
            /\ \/ IsList(args.get.body.ret)
               \/ /\ HasKey(args.get.body.ret.dict, "outputs")
                  /\ ~IsDict(Item(args.get.body.ret.dict, "outputs")))
               => RuntimeErrorOf("Unexpected error in PVGIS request")

\* A connect timeout, which is a connection error as well as a timeout, left
\* _make_request as the RuntimeError of a timeout
C23_ConnectTimeoutReported ==
    /\ MakeRequestRan
    /\ args.get.raised = "ConnectTimeout"
    /\ "ConnectionError" \in Bases(args.get.raised)
    /\ RuntimeErrorOf("PVGIS API request timed out")
    /\ ret.cause = "ConnectTimeout"

FetchHourlyRan == op = "PVGISService.fetch_hourly_data"

EndpointMethodRan ==
    \E m \in DOMAIN EndpointMethods : op = EndpointMethods[m].method

\* The dict of the response body of the call
BodyDict == args.get.body.ret.dict

\* The hourly list of the response body of the call
BodyHourly ==
    DictGet(DictGet(BodyDict, "outputs", DictValue(<<>>)).dict, "hourly",
            ListValue(<<>>)).list

\* The lists under 'outputs' of a dict
OutputLists(d) ==
    IF ~HasKey(d, "outputs") THEN <<>>
    ELSE SelectSeq(Item(d, "outputs").dict, LAMBDA e : IsList(e.value))

\* C26: PVGISService.fetch_hourly_data returns the complete hourly list of
\* the PVGIS response, never truncated to MAX_RECORDS_PER_ARRAY whatever its
\* length, whereas the responses of pvcalc, shscalc, mrcalc, drcalc,
\* seriescalc, tmy and printhorizon always pass through truncation
C26_HourlyDataComplete ==
    /\ (FetchHourlyRan /\ exc = "none") =>
           /\ ret.hourly_data = BodyHourly
           /\ LogLevel("WARNING") = <<>>
    /\ (EndpointMethodRan /\ exc = "none") =>
           /\ ret.dict = truncate_large_arrays(BodyDict, NoValue, NoValue).ret
           /\ \A i \in DOMAIN OutputLists(ret.dict) :
                  Len(OutputLists(ret.dict)[i].value.list)
                      <= MAX_RECORDS_PER_ARRAY
           /\ HasKey(ret.dict, "_truncation_warning")
                  <=> \E i \in DOMAIN OutputLists(BodyDict) :
                          Len(OutputLists(BodyDict)[i].value.list)
                              > MAX_RECORDS_PER_ARRAY

\* fetch_hourly_data returned an hourly list longer than
\* MAX_RECORDS_PER_ARRAY, from a response that holds a second long list
C26_LongHourlyListReturned ==
    /\ FetchHourlyRan
    /\ exc = "none"
    /\ Len(BodyHourly) = MAX_RECORDS_PER_ARRAY + 1
    /\ Len(ret.hourly_data) = MAX_RECORDS_PER_ARRAY + 1
    /\ HasKey(DictGet(BodyDict, "outputs", DictValue(<<>>)).dict, "monthly")

(***************************************************************************)
(* Properties of the errors of POST /pvgis-plus/day-average                *)
(***************************************************************************)
\* No record of what the fetch gave is of the requested month and day, and
\* none makes the loop raise
NoRecordMatches ==
    /\ ~args.data.failed
    /\ YearsFound(args.data.hourly, TargetDate(args.request)) = {}
    /\ \A i \in DOMAIN args.data.hourly :
           ~RecordRaises(args.data.hourly[i], TargetDate(args.request))

\* C28: when no fetched record matches the requested month and day,
\* calculate_day_average produces no response and raises RuntimeError, and
\* POST /pvgis-plus/day-average answers 502; every error raised inside the
\* service leaves it as RuntimeError, so the handler answers 200 or 502 and
\* never 400 or 500
C28_NoDataIsBadGateway ==
    (PlusDayAverageRan /\ DayAverageRequestAccepts(args.request)) =>
        /\ ret.status_code \in {200, 502}
        /\ calculate_day_average(args.request, args.data).exc
               \in {"none", "RuntimeError"}
        /\ ret.status_code = 502
               <=> calculate_day_average(args.request, args.data).exc
                       = "RuntimeError"
        /\ NoRecordMatches =>
               /\ calculate_day_average(args.request, args.data).exc
                      = "RuntimeError"
               /\ calculate_day_average(args.request, args.data).ret = NoValue
               /\ ret.status_code = 502
               /\ ret.body = NoValue
               /\ exc = "HTTPException"
               /\ log[Len(log)].vals = <<"RuntimeError">>

\* POST /pvgis-plus/day-average answered 502 to a request of 15 April for
\* which the fetch gave two records, neither of them of that day
C28_RecordsOfOtherDaysOnly ==
    /\ PlusDayAverageRan
    /\ DayAverageRequestAccepts(args.request)
    /\ args.request.day = 15
    /\ NoRecordMatches
    /\ Len(args.data.hourly) = 2
    /\ ret.status_code = 502
    /\ ret.body = NoValue

====
